---- MODULE Spec2Model ----
(***************************************************************************)
(* Model of the request-tui download engine: the front end (DownloadList,  *)
(* TaskListener, Sender), the TaskManager loop and the resolver state      *)
(* machine of app/task/resolve.rs, with the shared TaskState, the one-shot *)
(* result/command channels, the BufWriter and the destination files.       *)
(***************************************************************************)
EXTENDS Integers, Sequences, FiniteSets

\* ------------------------------ bounds ---------------------------------
\* number of Normal submissions the user makes
MaxTasks == 1
\* number of attempts (Normal + Resume) submitted in total
MaxAttempts == 2
\* size of the downloaded resource, in chunks of one byte
ResourceSize == 2

\* the downloads of a session observed at its TaskState locks
MaxLockTasks == 2

\* the numbered names name(1) .. name(MaxNames) of a download directory
MaxNames == 6

\* the downloads of a session seen at its lists
MaxListTasks == 2

\* the submissions of a session that fills the queue
MaxSubmissions == 34

\* ----------------------------- constants -------------------------------
\* mpsc::channel(32) in run_app
QueueCapacity == 32

Tasks == 1..MaxTasks
Attempts == 1..MaxAttempts
\* file names: 0 is "a", k is "a(k)"
Paths == 0..MaxTasks

None == "None"
\* Option<u64>
NoneU64 == <<>>
Some(n) == <<n>>
NoPath == -1
NoFile == -1
NoAttempt == 0

\* TaskFinalStage
Stages ==
    {"UnknownUrl", "FailToConnection", "FailToCreateFile", "FailToDownload",
     "FailToWrite", "FailToResumeFile", "FileCorrupted",
     "FailToResumeConnection", "Interrupted", "Abort", "Finished",
     "UnknownError"}

\* what the user may type into the URL input
UrlInputs == {"http://h/a", "h/a", "http://"}

\* Url::parse: Ok, or the ParseError it reports
UrlParse(s) ==
    CASE s = "http://h/a" -> [ok |-> TRUE, url |-> "http://h/a", err |-> None]
      [] s = "h/a" -> [ok |-> FALSE, url |-> None, err |-> "RelativeUrlWithoutBase"]
      [] OTHER -> [ok |-> FALSE, url |-> None, err |-> "EmptyHost"]

\* format!("http://{}", url_str)
HttpPrefixed(s) ==
    CASE s = "h/a" -> "http://h/a"
      [] s = "http://" -> "http://http://"
      [] OTHER -> "http://http://h/a"

get_proper_url(s) ==
    LET first == UrlParse(s) IN
    IF first.ok THEN first
    ELSE IF first.err = "RelativeUrlWithoutBase"
         THEN LET second == UrlParse(HttpPrefixed(s)) IN
              IF second.ok THEN second
              ELSE [ok |-> FALSE, url |-> None, err |-> "Failed to parse URL"]
         ELSE [ok |-> FALSE, url |-> None, err |-> "Failed to parse URL"]

\* TaskState::new; last_updated and last_speed, which hold readings of the
\* clock, are left out
NewTaskState ==
    [filepath |-> NoPath, url |-> None, accept_ranges |-> FALSE,
     content_length |-> NoneU64, downloaded |-> 0, last_downloaded |-> 0]

\* the listener fields; result_recv and command_sender name the attempt
\* whose channel endpoint the listener holds (command_sender = NoAttempt
\* is Option::None)
NoListener ==
    [task_result |-> None, processed |-> FALSE, stopped |-> FALSE,
     result_recv |-> NoAttempt, command_sender |-> NoAttempt]

\* TaskListener::new
NewListener(a) ==
    [task_result |-> None, processed |-> FALSE, stopped |-> FALSE,
     result_recv |-> a, command_sender |-> a]

\* a resolver that has not been spawned
NoResolver ==
    [task |-> 0, request |-> None, url |-> None, pc |-> "none",
     downloaded |-> 0, accept_range |-> FALSE, remaining |-> 0,
     buf |-> 0, after |-> None, nsent |-> 0]

\* no direct try_receive call has just been made on the listener
NoCall ==
    [called |-> FALSE, pre |-> None, flagged |-> FALSE, chan |-> None,
     ret |-> None, cached |-> None, touched |-> FALSE]

VARIABLES
    appRunning,   \* App::running, and the App not yet dropped
    list,         \* DownloadListInner::list, as the tasks of its listeners
    finished,     \* FinishList entries
    listener,     \* TaskListener fields of each task
    lastcall,     \* the direct try_receive call that has just been made
    ntask,        \* TaskStates allocated
    natt,         \* attempts submitted
    queue,        \* the mpsc submission queue
    managerDone,  \* TaskManager::run has returned
    res,          \* the resolver of each attempt
    resChan,      \* the oneshot result channel of each attempt
    cmdChan,      \* the oneshot command channel of each attempt
    state,        \* the shared TaskState of each task
    disk          \* length of each file of the download directory

vars ==
    <<appRunning, list, finished, listener, lastcall, ntask, natt, queue,
      managerDone, res, resChan, cmdChan, state, disk>>

Init ==
    /\ appRunning = TRUE
    /\ list = <<>>
    /\ finished = <<>>
    /\ listener = [t \in Tasks |-> NoListener]
    /\ lastcall = [t \in Tasks |-> NoCall]
    /\ ntask = 0
    /\ natt = 0
    /\ queue = <<>>
    /\ managerDone = FALSE
    /\ res = [a \in Attempts |-> NoResolver]
    /\ resChan = [a \in Attempts |-> "unused"]
    /\ cmdChan = [a \in Attempts |-> "unused"]
    /\ state = [t \in Tasks |-> NewTaskState]
    /\ disk = [p \in Paths |-> NoFile]

\* --------------------------- oneshot channels --------------------------
\* A channel is "empty", holds a value, is "taken" (the value was
\* received), "closed" (the sender was dropped without sending) or
\* "rxdropped" (the receiver was dropped).

\* a try_recv that would report a closed channel as an empty one
OneshotTryRecv_ClosedAsEmpty(ch) ==
    CASE ch \in {"empty", "closed", "taken"} ->
             [res |-> "Empty", val |-> None, ch |-> ch]
      [] OTHER -> [res |-> "Ok", val |-> ch, ch |-> "taken"]

\* oneshot::Receiver::try_recv
OneshotTryRecv(ch) ==
    CASE ch = "empty" -> [res |-> "Empty", val |-> None, ch |-> ch]
      [] ch \in {"closed", "taken"} -> [res |-> "Closed", val |-> None, ch |-> ch]
      [] OTHER -> [res |-> "Ok", val |-> ch, ch |-> "taken"]

\* oneshot::Sender::send; the sender is consumed
OneshotSend(ch, v) ==
    IF ch = "empty" THEN [ok |-> TRUE, ch |-> v]
    ELSE [ok |-> FALSE, ch |-> ch]

\* a drop of the Sender that would leave the channel open
DropSender_NoClose(ch) ==
    ch

\* drop of a oneshot::Sender that was never used
DropSender(ch) ==
    IF ch = "empty" THEN "closed" ELSE ch

\* drop of a oneshot::Receiver
DropReceiver(ch) ==
    "rxdropped"

\* a try_receive that would go to the channel whatever is cached
TryReceive_NoCache(l, ch) ==
    LET r == OneshotTryRecv(ch) IN
    CASE r.res = "Ok" ->
           [l |-> [l EXCEPT !.task_result = r.val], ch |-> r.ch,
            ret |-> r.val, touched |-> TRUE]
      [] r.res = "Empty" ->
           [l |-> l, ch |-> r.ch, ret |-> None, touched |-> TRUE]
      [] OTHER ->
           [l |-> [l EXCEPT !.task_result = "UnknownError"], ch |-> r.ch,
            ret |-> "UnknownError", touched |-> TRUE]

\* ------------------------------ listener -------------------------------
\* TaskListener::try_receive on listener l whose result channel is ch
TryReceive(l, ch) ==
    IF l.task_result # None \/ l.processed \/ l.stopped
    THEN [l |-> l, ch |-> ch, ret |-> l.task_result, touched |-> FALSE]
    ELSE LET r == OneshotTryRecv(ch) IN
         CASE r.res = "Ok" ->
                [l |-> [l EXCEPT !.task_result = r.val], ch |-> r.ch,
                 ret |-> r.val, touched |-> TRUE]
           [] r.res = "Empty" ->
                [l |-> l, ch |-> r.ch, ret |-> None, touched |-> TRUE]
           [] OTHER ->
                [l |-> [l EXCEPT !.task_result = "UnknownError"], ch |-> r.ch,
                 ret |-> "UnknownError", touched |-> TRUE]

\* what lastcall records of a try_receive call: the cached result, the
\* flags and the channel before it, what it returned, the result cached
\* after it and whether it used the channel
CallRecord(l, ch) ==
    LET r == TryReceive(l, ch) IN
    [called |-> TRUE, pre |-> l.task_result,
     flagged |-> l.processed \/ l.stopped, chan |-> ch,
     ret |-> r.ret, cached |-> r.l.task_result, touched |-> r.touched]

\* a send_command that would return at once on a stopped listener
SendCommand_NoOpWhenStopped(l, chans, command) ==
    LET sender == l.command_sender
        l2 == [l EXCEPT !.command_sender = NoAttempt]
    IN  IF sender = NoAttempt \/ l.stopped THEN [l |-> l, chans |-> chans]
        ELSE [l |-> l2,
              chans |-> [chans EXCEPT
                  ![sender] = OneshotSend(chans[sender], command).ch]]

\* a send_command that would send through the endpoint without taking it
SendCommand_KeepSender(l, chans, command) ==
    LET sender == l.command_sender IN
    IF sender = NoAttempt \/ l.stopped THEN [l |-> l, chans |-> chans]
    ELSE [l |-> l,
          chans |-> [chans EXCEPT
              ![sender] = OneshotSend(chans[sender], command).ch]]

\* TaskListener::send_command: the listener and the command channels after
SendCommand(l, chans, command) ==
    LET sender == l.command_sender
        l2 == [l EXCEPT !.command_sender = NoAttempt]
    IN  IF sender = NoAttempt THEN [l |-> l2, chans |-> chans]
        ELSE IF ~l.stopped
             THEN [l |-> l2,
                   chans |-> [chans EXCEPT
                       ![sender] = OneshotSend(chans[sender], command).ch]]
             ELSE [l |-> l2,
                   chans |-> [chans EXCEPT
                       ![sender] = DropSender(chans[sender])]]

\* a conversion that would copy content_length as recorded
FinishedEntry_NoBackfill(t, l, st) ==
    [task |-> t,
     state |-> IF l.task_result = "Finished" THEN "Success" ELSE "Failure",
     filepath |-> st.filepath, url |-> st.url,
     content_length |-> st.content_length, downloaded |-> st.downloaded]

\* TaskListener::into_finished_task: the FinishedTask built from listener l
\* of task t whose TaskState is st
FinishedEntry(t, l, st) ==
    LET finish_state ==
            IF l.task_result = None THEN "Failure"
            ELSE IF l.task_result = "Finished" THEN "Success" ELSE "Failure"
        content_length ==
            IF l.task_result = "Finished"
            THEN IF st.content_length # NoneU64 THEN st.content_length
                 ELSE Some(st.downloaded)
            ELSE st.content_length
    IN  [task |-> t, state |-> finish_state, filepath |-> st.filepath,
         url |-> st.url, content_length |-> content_length,
         downloaded |-> st.downloaded]

\* a removal that would always take the first element
RemoveAt_Head(s, i) ==
    Tail(s)

\* removal of the element at index i (Vec::remove)
RemoveAt(s, i) ==
    [j \in 1..(Len(s) - 1) |-> IF j < i THEN s[j] ELSE s[j + 1]]

\* the endpoints a dropped listener releases
DropListenerRes(l, chans) ==
    IF l.result_recv = NoAttempt THEN chans
    ELSE [chans EXCEPT ![l.result_recv] = DropReceiver(chans[l.result_recv])]

DropListenerCmd(l, chans) ==
    IF l.command_sender = NoAttempt THEN chans
    ELSE [chans EXCEPT ![l.command_sender] = DropSender(chans[l.command_sender])]

\* a retirement that would push the entry and leave the listener in the
\* list
MoveToFinishList_KeepsListener(s, index) ==
    LET t == s.list[index]
        l == [s.lis[t] EXCEPT !.processed = TRUE]
    IN  [list |-> s.list,
         fin |-> Append(s.fin, FinishedEntry(t, s.lis[t], state[t])),
         lis |-> [s.lis EXCEPT ![t] = l],
         lc |-> s.lc,
         rch |-> s.rch,
         cch |-> s.cch]

\* DownloadList::move_to_finish_list on the bundle s of front-end state:
\* the entry is pushed, the listener removed from the list and dropped
MoveToFinishList(s, index) ==
    LET t == s.list[index]
        l == [s.lis[t] EXCEPT !.processed = TRUE]
    IN  [list |-> RemoveAt(s.list, index),
         fin |-> Append(s.fin, FinishedEntry(t, s.lis[t], state[t])),
         lis |-> [s.lis EXCEPT ![t] = l],
         lc |-> s.lc,
         rch |-> DropListenerRes(l, s.rch),
         cch |-> DropListenerCmd(l, s.cch)]

\* a retirement rule that would also retire an interrupted task
RemoveHint_AlsoInterrupted(stage) ==
    stage \in {"UnknownUrl", "FailToConnection", "FailToCreateFile",
               "FileCorrupted", "Abort", "Finished", "UnknownError",
               "Interrupted"}

\* a retirement rule that would keep a task whose file could not be created
RemoveHint_KeepsCreateFailure(stage) ==
    stage \in {"UnknownUrl", "FailToConnection", "FileCorrupted", "Abort",
               "Finished", "UnknownError"}

\* a retirement rule that would keep a task whose connection failed
RemoveHint_KeepsConnectionFailure(stage) ==
    stage \in {"UnknownUrl", "FailToCreateFile", "FileCorrupted", "Abort",
               "Finished", "UnknownError"}

\* the stages on which handle_async retires the task
RemoveHint(stage) ==
    stage \in {"UnknownUrl", "FailToConnection", "FailToCreateFile",
               "FileCorrupted", "Abort", "Finished", "UnknownError"}

\* the body of the loop of DownloadList::handle_async on the listener of
\* task t: the listener and its result channel after the poll, and whether
\* the task is to be retired
PollListener(t) ==
    LET l == listener[t] IN
    IF l.processed
    THEN [l |-> l, ch |-> resChan[l.result_recv], remove |-> FALSE]
    ELSE LET r == TryReceive(l, resChan[l.result_recv])
             got == r.ret # None
             mark_stopped == got /\ r.ret # "Finished"
         IN  [l |-> [r.l EXCEPT
                       !.processed = IF got THEN TRUE ELSE @,
                       !.stopped = IF mark_stopped THEN TRUE ELSE @],
              ch |-> r.ch, remove |-> got /\ RemoveHint(r.ret)]

InList(t) ==
    \E i \in 1..Len(list) : list[i] = t

Retired(t) ==
    PollListener(t).remove

Kept(t) ==
    ~PollListener(t).remove

FrontEnd ==
    [list |-> list, fin |-> finished, lis |-> listener, lc |-> lastcall,
     rch |-> resChan, cch |-> cmdChan]

SetFrontEnd(s) ==
    /\ list' = s.list
    /\ finished' = s.fin
    /\ listener' = s.lis
    /\ lastcall' = s.lc
    /\ resChan' = s.rch
    /\ cmdChan' = s.cch

\* ---------------------------- front end --------------------------------
\* the submission queue is closed once the TaskManager has dropped its end
QueueClosed == managerDone

\* a submission that would hand out a listener although the send failed
AppendNormalTask_ListenerOnFailure(url) ==
    /\ appRunning
    /\ ntask + 1 \in DOMAIN state
    /\ natt + 1 \in DOMAIN res
    /\ Len(queue) < QueueCapacity
    /\ LET t == ntask + 1
           a == natt + 1
       IN  /\ ntask' = t
           /\ natt' = a
           /\ state' = [state EXCEPT ![t] = NewTaskState]
           /\ resChan' = [resChan EXCEPT ![a] =
                   IF QueueClosed THEN "closed" ELSE "empty"]
           /\ cmdChan' = [cmdChan EXCEPT ![a] =
                   IF QueueClosed THEN "rxdropped" ELSE "empty"]
           /\ queue' = IF QueueClosed THEN queue
                       ELSE Append(queue,
                              [task |-> t, request |-> "Normal", url |-> url,
                               att |-> a])
           /\ listener' = [listener EXCEPT ![t] = NewListener(a)]
           /\ list' = Append(list, t)
           /\ UNCHANGED <<appRunning, finished, lastcall, managerDone,
                          res, disk>>

\* DownloadList::append_normal_task / Sender::send_normal_request; the
\* session has room for the TaskStates of DOMAIN state and the attempts of
\* DOMAIN res
AppendNormalTask(url) ==
    /\ appRunning
    /\ ntask + 1 \in DOMAIN state
    /\ natt + 1 \in DOMAIN res
    /\ Len(queue) < QueueCapacity
    /\ LET t == ntask + 1
           a == natt + 1
       IN  IF QueueClosed
           THEN UNCHANGED vars
           ELSE /\ ntask' = t
                /\ natt' = a
                /\ state' = [state EXCEPT ![t] = NewTaskState]
                /\ resChan' = [resChan EXCEPT ![a] = "empty"]
                /\ cmdChan' = [cmdChan EXCEPT ![a] = "empty"]
                /\ queue' = Append(queue,
                       [task |-> t, request |-> "Normal", url |-> url, att |-> a])
                /\ listener' = [listener EXCEPT ![t] = NewListener(a)]
                /\ list' = Append(list, t)
                /\ UNCHANGED <<appRunning, finished, lastcall, managerDone,
                               res, disk>>

\* DownloadList::stop_task
StopTask(index) ==
    /\ appRunning
    /\ index \in 1..Len(list)
    /\ LET t == list[index] IN
       IF listener[t].stopped THEN UNCHANGED vars
       ELSE LET r == SendCommand(listener[t], cmdChan, "Stop") IN
            /\ listener' = [listener EXCEPT ![t] = r.l]
            /\ cmdChan' = r.chans
            /\ UNCHANGED <<appRunning, list, finished, lastcall, ntask, natt,
                           queue, managerDone, res, resChan, state, disk>>

\* DownloadList::abort_task
AbortTask(index) ==
    /\ appRunning
    /\ index \in 1..Len(list)
    /\ LET t == list[index] IN
       IF listener[t].stopped
       THEN /\ SetFrontEnd(MoveToFinishList(FrontEnd, index))
            /\ UNCHANGED <<appRunning, ntask, natt, queue, managerDone, res,
                           state, disk>>
       ELSE LET r == SendCommand(listener[t], cmdChan, "Abort") IN
            /\ listener' = [listener EXCEPT ![t] = r.l]
            /\ cmdChan' = r.chans
            /\ UNCHANGED <<appRunning, list, finished, lastcall, ntask, natt,
                           queue, managerDone, res, resChan, state, disk>>

\* a resume_task that would also go ahead once a command has been sent
ResumeAllowed_AfterCommand(l) ==
    l.stopped \/ l.command_sender = NoAttempt

\* a resume_task that would not look at the stopped flag
ResumeAllowed_Always(l) ==
    TRUE

\* the guard of TaskListener::resume_task: only a stopped listener resumes
ResumeAllowed(l) ==
    l.stopped

\* a resume_task that would reset the listener before the submission is
\* known to have succeeded, and keep the task when it failed
ResumeTask_ResetsFirst(index) ==
    /\ appRunning
    /\ index \in 1..Len(list)
    /\ natt + 1 \in DOMAIN res
    /\ Len(queue) < QueueCapacity
    /\ LET t == list[index]
           l == listener[t]
           a == natt + 1
       IN  IF ~ResumeAllowed(l) THEN UNCHANGED vars
           ELSE IF QueueClosed
           THEN /\ listener' = [listener EXCEPT ![t] =
                       [l EXCEPT !.task_result = None, !.processed = FALSE,
                                 !.stopped = FALSE]]
                /\ UNCHANGED <<appRunning, list, finished, lastcall, ntask,
                               natt, queue, managerDone, res, resChan,
                               cmdChan, state, disk>>
           ELSE /\ natt' = a
                /\ queue' = Append(queue,
                       [task |-> t, request |-> "Resume", url |-> None, att |-> a])
                /\ resChan' = [DropListenerRes(l, resChan) EXCEPT ![a] = "empty"]
                /\ cmdChan' = [DropListenerCmd(l, cmdChan) EXCEPT ![a] = "empty"]
                /\ listener' = [listener EXCEPT ![t] =
                       [task_result |-> None, processed |-> FALSE,
                        stopped |-> FALSE, result_recv |-> a,
                        command_sender |-> a]]
                /\ UNCHANGED <<appRunning, list, finished, lastcall, ntask,
                               managerDone, res, state, disk>>

\* a resume_task that would leave the processed flag set
ResumeTask_KeepsProcessed(index) ==
    /\ appRunning
    /\ index \in 1..Len(list)
    /\ natt + 1 \in DOMAIN res
    /\ Len(queue) < QueueCapacity
    /\ LET t == list[index]
           l == listener[t]
           a == natt + 1
       IN  IF ~ResumeAllowed(l) THEN UNCHANGED vars
           ELSE IF QueueClosed
           THEN /\ SetFrontEnd(MoveToFinishList(FrontEnd, index))
                /\ UNCHANGED <<appRunning, ntask, natt, queue, managerDone,
                               res, state, disk>>
           ELSE /\ natt' = a
                /\ queue' = Append(queue,
                       [task |-> t, request |-> "Resume", url |-> None, att |-> a])
                /\ resChan' = [DropListenerRes(l, resChan) EXCEPT ![a] = "empty"]
                /\ cmdChan' = [DropListenerCmd(l, cmdChan) EXCEPT ![a] = "empty"]
                /\ listener' = [listener EXCEPT ![t] =
                       [task_result |-> None, processed |-> l.processed,
                        stopped |-> FALSE, result_recv |-> a,
                        command_sender |-> a]]
                /\ UNCHANGED <<appRunning, list, finished, lastcall, ntask,
                               managerDone, res, state, disk>>

\* a resume_task that would keep the command endpoint of the previous
\* attempt
ResumeTask_KeepsCommandSender(index) ==
    /\ appRunning
    /\ index \in 1..Len(list)
    /\ natt + 1 \in DOMAIN res
    /\ Len(queue) < QueueCapacity
    /\ LET t == list[index]
           l == listener[t]
           a == natt + 1
       IN  IF ~ResumeAllowed(l) THEN UNCHANGED vars
           ELSE IF QueueClosed
           THEN /\ SetFrontEnd(MoveToFinishList(FrontEnd, index))
                /\ UNCHANGED <<appRunning, ntask, natt, queue, managerDone,
                               res, state, disk>>
           ELSE /\ natt' = a
                /\ queue' = Append(queue,
                       [task |-> t, request |-> "Resume", url |-> None, att |-> a])
                /\ resChan' = [DropListenerRes(l, resChan) EXCEPT ![a] = "empty"]
                /\ cmdChan' = [DropListenerCmd(l, cmdChan) EXCEPT ![a] = "empty"]
                /\ listener' = [listener EXCEPT ![t] =
                       [task_result |-> None, processed |-> FALSE,
                        stopped |-> FALSE, result_recv |-> a,
                        command_sender |-> l.command_sender]]
                /\ UNCHANGED <<appRunning, list, finished, lastcall, ntask,
                               managerDone, res, state, disk>>

\* DownloadList::resume_task / TaskListener::resume_task /
\* Sender::send_resume_request
ResumeTask(index) ==
    /\ appRunning
    /\ index \in 1..Len(list)
    /\ natt + 1 \in DOMAIN res
    /\ Len(queue) < QueueCapacity
    /\ LET t == list[index]
           l == listener[t]
           a == natt + 1
       IN  IF ~ResumeAllowed(l) THEN UNCHANGED vars
           ELSE IF QueueClosed
           THEN /\ SetFrontEnd(MoveToFinishList(FrontEnd, index))
                /\ UNCHANGED <<appRunning, ntask, natt, queue, managerDone,
                               res, state, disk>>
           ELSE /\ natt' = a
                /\ queue' = Append(queue,
                       [task |-> t, request |-> "Resume", url |-> None, att |-> a])
                /\ resChan' = [DropListenerRes(l, resChan) EXCEPT ![a] = "empty"]
                /\ cmdChan' = [DropListenerCmd(l, cmdChan) EXCEPT ![a] = "empty"]
                /\ listener' = [listener EXCEPT ![t] =
                       [task_result |-> None, processed |-> FALSE,
                        stopped |-> FALSE, result_recv |-> a,
                        command_sender |-> a]]
                /\ UNCHANGED <<appRunning, list, finished, lastcall, ntask,
                               managerDone, res, state, disk>>

\* DownloadList::handle_async, called by every iteration of App::run: every
\* listener of the list is polled in order, and the retired ones are moved
\* to the finished list (move_to_finish_list) and dropped
HandleAsync ==
    /\ appRunning
    /\ LET retired == SelectSeq(list, Retired) IN
       /\ list' = SelectSeq(list, Kept)
       /\ finished' = finished \o
              [i \in 1..Len(retired) |->
                  FinishedEntry(retired[i], PollListener(retired[i]).l,
                                state[retired[i]])]
       /\ listener' = [t \in DOMAIN listener |->
              IF ~InList(t) THEN listener[t]
              ELSE IF Retired(t)
                   THEN [PollListener(t).l EXCEPT !.processed = TRUE]
                   ELSE PollListener(t).l]
       /\ lastcall' = lastcall
       /\ resChan' = [a \in DOMAIN res |->
              IF \E t \in DOMAIN listener : InList(t) /\ listener[t].result_recv = a
              THEN LET t == CHOOSE t \in DOMAIN listener :
                                InList(t) /\ listener[t].result_recv = a
                   IN  IF Retired(t) THEN DropReceiver(PollListener(t).ch)
                       ELSE PollListener(t).ch
              ELSE resChan[a]]
       /\ cmdChan' = [a \in DOMAIN res |->
              IF \E t \in DOMAIN listener : /\ InList(t) /\ Retired(t)
                                  /\ listener[t].command_sender = a
              THEN DropSender(cmdChan[a])
              ELSE cmdChan[a]]
    /\ UNCHANGED <<appRunning, ntask, natt, queue, managerDone, res, state,
                   disk>>

\* AppMessage::Quit: App::run returns and the App is dropped with its
\* listeners, its finished list and the queue's only producer
RECURSIVE DropAll(_, _)
DropAll(s, ts) ==
    IF ts = {} THEN s
    ELSE LET t == CHOOSE x \in ts : TRUE IN
         DropAll([s EXCEPT !.rch = DropListenerRes(s.lis[t], s.rch),
                           !.cch = DropListenerCmd(s.lis[t], s.cch)],
                 ts \ {t})

Quit ==
    /\ appRunning
    /\ appRunning' = FALSE
    /\ LET s == DropAll(FrontEnd, {list[i] : i \in 1..Len(list)}) IN
       /\ resChan' = s.rch
       /\ cmdChan' = s.cch
    /\ list' = <<>>
    /\ finished' = <<>>
    /\ listener' = [t \in DOMAIN listener |-> NoListener]
    /\ UNCHANGED <<lastcall, ntask, natt, queue, managerDone, res, state,
                   disk>>

\* ----------------------------- TaskManager -----------------------------
\* the end of the resolver's future (return, panic or cancellation): its
\* locals are dropped; the bytes its BufWriter still held stay recorded
Ended(r, pc) ==
    [NoResolver EXCEPT !.task = r.task, !.request = r.request, !.pc = pc,
                       !.buf = r.buf, !.nsent = r.nsent]

Terminated(pc) == pc \in {"done", "panicked"}

Running(pc) == pc \notin {"none", "done", "panicked", "cancelled"}

\* a loop iteration that would receive the Task and spawn nothing
ManagerSpawn_Skips ==
    /\ ~managerDone
    /\ queue # <<>>
    /\ queue' = Tail(queue)
    /\ resChan' = [resChan EXCEPT ![Head(queue).att] = DropSender(@)]
    /\ cmdChan' = [cmdChan EXCEPT ![Head(queue).att] = DropReceiver(@)]
    /\ UNCHANGED <<appRunning, list, finished, listener, lastcall, ntask,
                   natt, managerDone, res, state, disk>>

\* TaskManager::run: one iteration of the receive loop, spawning the
\* resolver (handle_task) of the received Task
ManagerSpawn ==
    /\ ~managerDone
    /\ queue # <<>>
    /\ LET task == Head(queue) IN
       res' = [res EXCEPT ![task.att] =
                  [NoResolver EXCEPT !.task = task.task,
                                     !.request = task.request,
                                     !.url = task.url,
                                     !.pc = "start"]]
    /\ queue' = Tail(queue)
    /\ UNCHANGED <<appRunning, list, finished, listener, lastcall, ntask,
                   natt, managerDone, resChan, cmdChan, state, disk>>

\* TaskManager::run returns once every producer is gone and the queue is
\* drained; run_app's thread closure then drops the manager and its
\* runtime, which drops every resolver still suspended at an await
ManagerExit ==
    /\ ~managerDone
    /\ ~appRunning
    /\ queue = <<>>
    /\ managerDone' = TRUE
    /\ res' = [a \in DOMAIN res |->
                  IF Running(res[a].pc) THEN Ended(res[a], "cancelled")
                  ELSE res[a]]
    /\ resChan' = [a \in DOMAIN res |->
                      IF Running(res[a].pc) THEN DropSender(resChan[a])
                      ELSE resChan[a]]
    /\ cmdChan' = [a \in DOMAIN res |->
                      IF Running(res[a].pc) THEN DropReceiver(cmdChan[a])
                      ELSE cmdChan[a]]
    /\ UNCHANGED <<appRunning, list, finished, listener, lastcall, ntask,
                   natt, queue, state, disk>>

\* ------------------------------ resolver -------------------------------
\* a report that would ignore a failed send on every path
Report_IgnoresFailure(a, r, stage, unwrap) ==
    LET s == OneshotSend(resChan[a], stage) IN
    /\ resChan' = [resChan EXCEPT ![a] = s.ch]
    /\ cmdChan' = [cmdChan EXCEPT ![a] = DropReceiver(cmdChan[a])]
    /\ res' = [res EXCEPT ![a] =
                  Ended([r EXCEPT !.nsent = r.nsent + 1], "done")]

\* reporter.send(TaskResult) followed by the return of the resolver: r is
\* the resolver's record at that point, unwrap tells whether the send's
\* outcome is unwrapped (a failed send then panics)
Report(a, r, stage, unwrap) ==
    LET s == OneshotSend(resChan[a], stage) IN
    /\ resChan' = [resChan EXCEPT ![a] = s.ch]
    /\ cmdChan' = [cmdChan EXCEPT ![a] = DropReceiver(cmdChan[a])]
    /\ res' = [res EXCEPT ![a] =
                  Ended([r EXCEPT !.nsent = r.nsent + 1],
                        IF s.ok \/ ~unwrap THEN "done" ELSE "panicked")]

\* a panic of the resolver before any result was sent: the spawned task
\* ends and its reporter and command receiver are dropped
Panic(a, r) ==
    /\ resChan' = [resChan EXCEPT ![a] = DropSender(resChan[a])]
    /\ cmdChan' = [cmdChan EXCEPT ![a] = DropReceiver(cmdChan[a])]
    /\ res' = [res EXCEPT ![a] = Ended(r, "panicked")]

\* get_filename_no_duplicate: the requested name (0) when unused, else the
\* first name(k) that does not exist
RECURSIVE ProbeFrom(_, _)
ProbeFrom(files, count) ==
    IF count \notin DOMAIN files \/ files[count] = NoFile THEN count
    ELSE ProbeFrom(files, count + 1)

\* a resolution that would go to the numbered names at once
get_filename_no_duplicate_Numbered(files) ==
    ProbeFrom(files, 1)

get_filename_no_duplicate(files) ==
    IF files[0] = NoFile THEN 0 ELSE ProbeFrom(files, 1)

\* handle_normal_download up to the request: URL normalisation, download
\* directory, HTTP client
NormalPrepare(a) ==
    /\ res[a].pc = "start"
    /\ res[a].request = "Normal"
    /\ LET u == get_proper_url(res[a].url) IN
       IF ~u.ok
       THEN Report(a, res[a], "UnknownUrl", TRUE)
       ELSE \E home \in BOOLEAN, client \in BOOLEAN :
              IF ~home THEN Panic(a, res[a])
              ELSE IF ~client
                   THEN Report(a, res[a], "FailToConnection", TRUE)
                   ELSE /\ res' = [res EXCEPT ![a].pc = "connect",
                                              ![a].url = u.url]
                        /\ UNCHANGED <<resChan, cmdChan>>
    /\ UNCHANGED <<appRunning, list, finished, listener, lastcall, ntask,
                   natt, queue, managerDone, state, disk>>

\* a header write that would leave out the URL
HeadState_NoUrl(st, content_length, accept_ranges, dest, url) ==
    [st EXCEPT !.content_length = content_length,
               !.accept_ranges = accept_ranges,
               !.filepath = dest]

\* the write of get_download_head into the TaskState, under the lock
HeadState(st, content_length, accept_ranges, dest, url) ==
    [st EXCEPT !.content_length = content_length,
               !.accept_ranges = accept_ranges,
               !.filepath = dest,
               !.url = url]

\* a header step that would reserve the name: names recorded by the other
\* downloads count as taken
GetDownloadHead_Reserves(a) ==
    /\ res[a].pc = "connect"
    /\ LET t == res[a].task
           taken == [p \in DOMAIN disk |->
                        IF disk[p] # NoFile
                              \/ \E u \in DOMAIN state :
                                    u # t /\ state[u].filepath = p
                        THEN 0 ELSE NoFile]
       IN
       \E ok \in BOOLEAN, hasLen \in BOOLEAN, ranges \in BOOLEAN :
          IF ~ok
          THEN /\ hasLen /\ ranges
               /\ Report(a, res[a], "FailToConnection", TRUE)
               /\ UNCHANGED state
          ELSE /\ state' = [state EXCEPT ![t] =
                     HeadState(state[t],
                               IF hasLen THEN Some(ResourceSize) ELSE NoneU64,
                               ranges, get_filename_no_duplicate(taken),
                               res[a].url)]
               /\ res' = [res EXCEPT ![a].pc = "create",
                                     ![a].remaining = ResourceSize]
               /\ UNCHANGED <<resChan, cmdChan>>
    /\ UNCHANGED <<appRunning, list, finished, listener, lastcall, ntask,
                   natt, queue, managerDone, disk>>

\* a header step that would run the attempt again from its start when the
\* request failed
GetDownloadHead_Retries(a) ==
    /\ res[a].pc = "connect"
    /\ LET t == res[a].task IN
       \E ok \in BOOLEAN, hasLen \in BOOLEAN, ranges \in BOOLEAN :
          IF ~ok
          THEN /\ hasLen /\ ranges
               /\ res' = [res EXCEPT ![a].pc = "start"]
               /\ UNCHANGED <<state, resChan, cmdChan>>
          ELSE /\ state' = [state EXCEPT ![t] =
                     HeadState(state[t],
                               IF hasLen THEN Some(ResourceSize) ELSE NoneU64,
                               ranges, get_filename_no_duplicate(disk),
                               res[a].url)]
               /\ res' = [res EXCEPT ![a].pc = "create",
                                     ![a].remaining = ResourceSize]
               /\ UNCHANGED <<resChan, cmdChan>>
    /\ UNCHANGED <<appRunning, list, finished, listener, lastcall, ntask,
                   natt, queue, managerDone, disk>>

\* get_download_head: the response arrives, its headers are read and the
\* TaskState is filled in under the lock
GetDownloadHead(a) ==
    /\ res[a].pc = "connect"
    /\ LET t == res[a].task IN
       \E ok \in BOOLEAN, hasLen \in BOOLEAN, ranges \in BOOLEAN :
          IF ~ok
          THEN /\ hasLen /\ ranges
               /\ Report(a, res[a], "FailToConnection", TRUE)
               /\ UNCHANGED state
          ELSE /\ state' = [state EXCEPT ![t] =
                     HeadState(state[t],
                               IF hasLen THEN Some(ResourceSize) ELSE NoneU64,
                               ranges, get_filename_no_duplicate(disk),
                               res[a].url)]
               /\ res' = [res EXCEPT ![a].pc = "create",
                                     ![a].remaining = ResourceSize]
               /\ UNCHANGED <<resChan, cmdChan>>
    /\ UNCHANGED <<appRunning, list, finished, listener, lastcall, ntask,
                   natt, queue, managerDone, disk>>

\* create_download_file on the path read back from the TaskState
CreateDownloadFile(a) ==
    /\ res[a].pc = "create"
    /\ LET filepath == state[res[a].task].filepath IN
       \E ok \in BOOLEAN :
          IF ~ok
          THEN /\ Report(a, res[a], "FailToCreateFile", TRUE)
               /\ UNCHANGED disk
          ELSE /\ disk' = [disk EXCEPT ![filepath] = 0]
               /\ res' = [res EXCEPT ![a].pc = "stream", ![a].buf = 0]
               /\ UNCHANGED <<resChan, cmdChan>>
    /\ UNCHANGED <<appRunning, list, finished, listener, lastcall, ntask,
                   natt, queue, managerDone, state>>

\* flush_file_buffer followed by the send of `stage` when the flush
\* succeeded; a failed flush reports FailToWrite
FlushAndReport(a, stage) ==
    LET filepath == state[res[a].task].filepath IN
    \E ok \in BOOLEAN :
       IF ok
       THEN /\ disk' = [disk EXCEPT ![filepath] = disk[filepath] + res[a].buf]
            /\ Report(a, [res[a] EXCEPT !.buf = 0], stage, TRUE)
       ELSE /\ Report(a, res[a], "FailToWrite", TRUE)
            /\ UNCHANGED disk

\* a progress increment that would also rewrite content_length
ChunkState_Length(st, len) ==
    [st EXCEPT !.downloaded = st.downloaded + len,
               !.content_length = <<st.downloaded + len>>]

\* the progress increment of download_stream_to_file, under the lock
ChunkState(st, len) ==
    [st EXCEPT !.downloaded = st.downloaded + len]

\* a loop iteration that would unwrap the send of UnknownError as the
\* other sends are
DownloadChunk_ClosedUnwraps(a) ==
    /\ res[a].pc = "stream"
    /\ res[a].remaining > 0
    /\ LET t == res[a].task
           filepath == state[t].filepath
       IN
       \E outcome \in {"streamerr", "writeerr", "spill", "buffered"} :
          CASE outcome = "streamerr" ->
                 /\ Report(a, res[a], "FailToDownload", TRUE)
                 /\ UNCHANGED <<state, disk>>
            [] outcome = "writeerr" ->
                 /\ Report(a, res[a], "FailToWrite", TRUE)
                 /\ UNCHANGED <<state, disk>>
            [] OTHER ->
                 LET \* BufWriter::write_all: the chunk is buffered, after
                     \* the buffer was written out when it had no room left
                     newbuf == IF outcome = "spill" THEN 1 ELSE res[a].buf + 1
                     r == [res[a] EXCEPT !.buf = newbuf,
                                         !.remaining = res[a].remaining - 1]
                     cmd == OneshotTryRecv(cmdChan[a])
                 IN
                 /\ outcome = "spill" => res[a].buf > 0
                 /\ disk' = IF outcome = "spill"
                            THEN [disk EXCEPT ![filepath] = disk[filepath] + res[a].buf]
                            ELSE disk
                 /\ state' = [state EXCEPT ![t] = ChunkState(state[t], 1)]
                 /\ CASE cmd.res = "Ok" ->
                           /\ res' = [res EXCEPT ![a] =
                                  [r EXCEPT !.pc = "flush",
                                            !.after = IF cmd.val = "Stop"
                                                      THEN "Interrupted"
                                                      ELSE "Abort"]]
                           /\ cmdChan' = [cmdChan EXCEPT ![a] = cmd.ch]
                           /\ UNCHANGED resChan
                      [] cmd.res = "Closed" ->
                           Report(a, r, "UnknownError", TRUE)
                      [] OTHER ->
                           /\ res' = [res EXCEPT ![a] = r]
                           /\ UNCHANGED <<resChan, cmdChan>>
    /\ UNCHANGED <<appRunning, list, finished, listener, lastcall, ntask,
                   natt, queue, managerDone>>

\* download_stream_to_file: one iteration of the loop (next chunk, write,
\* downloaded increment, command poll)
DownloadChunk(a) ==
    /\ res[a].pc = "stream"
    /\ res[a].remaining > 0
    /\ LET t == res[a].task
           filepath == state[t].filepath
       IN
       \E outcome \in {"streamerr", "writeerr", "spill", "buffered"} :
          CASE outcome = "streamerr" ->
                 /\ Report(a, res[a], "FailToDownload", TRUE)
                 /\ UNCHANGED <<state, disk>>
            [] outcome = "writeerr" ->
                 /\ Report(a, res[a], "FailToWrite", TRUE)
                 /\ UNCHANGED <<state, disk>>
            [] OTHER ->
                 LET \* BufWriter::write_all: the chunk is buffered, after
                     \* the buffer was written out when it had no room left
                     newbuf == IF outcome = "spill" THEN 1 ELSE res[a].buf + 1
                     r == [res[a] EXCEPT !.buf = newbuf,
                                         !.remaining = res[a].remaining - 1]
                     cmd == OneshotTryRecv(cmdChan[a])
                 IN
                 /\ outcome = "spill" => res[a].buf > 0
                 /\ disk' = IF outcome = "spill"
                            THEN [disk EXCEPT ![filepath] = disk[filepath] + res[a].buf]
                            ELSE disk
                 /\ state' = [state EXCEPT ![t] = ChunkState(state[t], 1)]
                 /\ CASE cmd.res = "Ok" ->
                           /\ res' = [res EXCEPT ![a] =
                                  [r EXCEPT !.pc = "flush",
                                            !.after = IF cmd.val = "Stop"
                                                      THEN "Interrupted"
                                                      ELSE "Abort"]]
                           /\ cmdChan' = [cmdChan EXCEPT ![a] = cmd.ch]
                           /\ UNCHANGED resChan
                      [] cmd.res = "Closed" ->
                           Report(a, r, "UnknownError", FALSE)
                      [] OTHER ->
                           /\ res' = [res EXCEPT ![a] = r]
                           /\ UNCHANGED <<resChan, cmdChan>>
    /\ UNCHANGED <<appRunning, list, finished, listener, lastcall, ntask,
                   natt, queue, managerDone>>

\* a Stop or Abort handling that would report Interrupted for both
FlushOnCommand_AlwaysInterrupted(a) ==
    /\ res[a].pc = "flush"
    /\ FlushAndReport(a, "Interrupted")
    /\ UNCHANGED <<appRunning, list, finished, listener, lastcall, ntask,
                   natt, queue, managerDone, state>>

\* a Stop or Abort handling that would report without flushing
FlushOnCommand_NoFlush(a) ==
    /\ res[a].pc = "flush"
    /\ Report(a, res[a], res[a].after, TRUE)
    /\ UNCHANGED <<appRunning, list, finished, listener, lastcall, ntask,
                   natt, queue, managerDone, state, disk>>

\* download_stream_to_file after a Stop or Abort was received: flush, then
\* report Interrupted or Abort
FlushOnCommand(a) ==
    /\ res[a].pc = "flush"
    /\ FlushAndReport(a, res[a].after)
    /\ UNCHANGED <<appRunning, list, finished, listener, lastcall, ntask,
                   natt, queue, managerDone, state>>

\* the stream is exhausted: download_stream_to_file flushes and hands the
\* reporter back, and the caller reports Finished
StreamEnd(a) ==
    /\ res[a].pc = "stream"
    /\ res[a].remaining = 0
    /\ FlushAndReport(a, "Finished")
    /\ UNCHANGED <<appRunning, list, finished, listener, lastcall, ntask,
                   natt, queue, managerDone, state>>

\* a resume that would always continue from the recorded downloaded
ResumeOffset_Recorded(accept_ranges, downloaded) ==
    downloaded

\* a resume that would always start over
ResumeOffset_Zero(accept_ranges, downloaded) ==
    0

\* the offset handle_resume_download continues from: the recorded
\* downloaded, or 0 when the server did not accept ranges
ResumeOffset(accept_ranges, downloaded) ==
    IF ~accept_ranges THEN 0 ELSE downloaded

\* a resume that would reset downloaded and leave last_downloaded as the
\* last ui_update set it
ResumeStart_KeepsLastDownloaded(a) ==
    /\ res[a].pc = "start"
    /\ res[a].request = "Resume"
    /\ LET t == res[a].task
           accept_ranges == state[t].accept_ranges
           downloaded == ResumeOffset(accept_ranges, state[t].downloaded)
       IN
       IF state[t].url = None
       THEN /\ Panic(a, res[a])
            /\ UNCHANGED state
       ELSE /\ state' = [state EXCEPT ![t].downloaded = downloaded]
            /\ res' = [res EXCEPT ![a].pc = "rfile",
                                  ![a].url = state[t].url,
                                  ![a].accept_range = accept_ranges,
                                  ![a].downloaded = downloaded]
            /\ UNCHANGED <<resChan, cmdChan>>
    /\ UNCHANGED <<appRunning, list, finished, listener, lastcall, ntask,
                   natt, queue, managerDone, disk>>

\* handle_resume_download: the TaskState is read under the lock, downloaded
\* is reset when the server did not accept ranges and last_downloaded is
\* set to the same offset
ResumeStart(a) ==
    /\ res[a].pc = "start"
    /\ res[a].request = "Resume"
    /\ LET t == res[a].task
           accept_ranges == state[t].accept_ranges
           downloaded == ResumeOffset(accept_ranges, state[t].downloaded)
       IN
       IF state[t].url = None
       THEN /\ Panic(a, res[a])
            /\ UNCHANGED state
       ELSE /\ state' = [state EXCEPT ![t].downloaded = downloaded,
                                      ![t].last_downloaded = downloaded]
            /\ res' = [res EXCEPT ![a].pc = "rfile",
                                  ![a].url = state[t].url,
                                  ![a].accept_range = accept_ranges,
                                  ![a].downloaded = downloaded]
            /\ UNCHANGED <<resChan, cmdChan>>
    /\ UNCHANGED <<appRunning, list, finished, listener, lastcall, ntask,
                   natt, queue, managerDone, disk>>

\* a resume_file that would set the length without comparing it first
ResumeFile_NoLengthCheck(a) ==
    /\ res[a].pc = "rfile"
    /\ LET filepath == state[res[a].task].filepath
           downloaded == res[a].downloaded
       IN
       \E ok \in BOOLEAN, client \in BOOLEAN :
          IF ~res[a].accept_range
          THEN IF ~ok
               THEN /\ client
                    /\ Report(a, res[a], "FailToResumeFile", TRUE)
                    /\ UNCHANGED disk
               ELSE /\ disk' = [disk EXCEPT ![filepath] = 0]
                    /\ IF ~client
                       THEN Report(a, res[a], "FailToResumeConnection", TRUE)
                       ELSE /\ res' = [res EXCEPT ![a].pc = "rconnect",
                                                  ![a].buf = 0]
                            /\ UNCHANGED <<resChan, cmdChan>>
          ELSE IF disk[filepath] = NoFile \/ ~ok
               THEN /\ client
                    /\ Report(a, res[a], "FailToResumeFile", TRUE)
                    /\ UNCHANGED disk
               ELSE /\ disk' = [disk EXCEPT ![filepath] = downloaded]
                    /\ IF ~client
                       THEN Report(a, res[a], "FailToResumeConnection", TRUE)
                       ELSE /\ res' = [res EXCEPT ![a].pc = "rconnect",
                                                  ![a].buf = 0]
                            /\ UNCHANGED <<resChan, cmdChan>>
    /\ UNCHANGED <<appRunning, list, finished, listener, lastcall, ntask,
                   natt, queue, managerDone, state>>

\* a resume_file that would open the file of a restarted download without
\* truncating it
ResumeFile_NoTruncate(a) ==
    /\ res[a].pc = "rfile"
    /\ LET filepath == state[res[a].task].filepath
           downloaded == res[a].downloaded
       IN
       \E ok \in BOOLEAN, client \in BOOLEAN :
          IF ~res[a].accept_range
          THEN IF ~ok
               THEN /\ client
                    /\ Report(a, res[a], "FailToResumeFile", TRUE)
                    /\ UNCHANGED disk
               ELSE /\ disk' = disk
                    /\ IF ~client
                       THEN Report(a, res[a], "FailToResumeConnection", TRUE)
                       ELSE /\ res' = [res EXCEPT ![a].pc = "rconnect",
                                                  ![a].buf = 0]
                            /\ UNCHANGED <<resChan, cmdChan>>
          ELSE IF disk[filepath] = NoFile \/ ~ok
               THEN /\ client
                    /\ Report(a, res[a], "FailToResumeFile", TRUE)
                    /\ UNCHANGED disk
               ELSE IF disk[filepath] < downloaded
               THEN /\ client
                    /\ Report(a, res[a], "FileCorrupted", TRUE)
                    /\ UNCHANGED disk
               ELSE /\ disk' = [disk EXCEPT ![filepath] = downloaded]
                    /\ IF ~client
                       THEN Report(a, res[a], "FailToResumeConnection", TRUE)
                       ELSE /\ res' = [res EXCEPT ![a].pc = "rconnect",
                                                  ![a].buf = 0]
                            /\ UNCHANGED <<resChan, cmdChan>>
    /\ UNCHANGED <<appRunning, list, finished, listener, lastcall, ntask,
                   natt, queue, managerDone, state>>

\* resume_file, then the HTTP client of handle_resume_download
ResumeFile(a) ==
    /\ res[a].pc = "rfile"
    /\ LET filepath == state[res[a].task].filepath
           downloaded == res[a].downloaded
       IN
       \E ok \in BOOLEAN, client \in BOOLEAN :
          IF ~res[a].accept_range
          THEN IF ~ok
               THEN /\ client
                    /\ Report(a, res[a], "FailToResumeFile", TRUE)
                    /\ UNCHANGED disk
               ELSE /\ disk' = [disk EXCEPT ![filepath] = 0]
                    /\ IF ~client
                       THEN Report(a, res[a], "FailToResumeConnection", TRUE)
                       ELSE /\ res' = [res EXCEPT ![a].pc = "rconnect",
                                                  ![a].buf = 0]
                            /\ UNCHANGED <<resChan, cmdChan>>
          ELSE IF disk[filepath] = NoFile \/ ~ok
               THEN /\ client
                    /\ Report(a, res[a], "FailToResumeFile", TRUE)
                    /\ UNCHANGED disk
               ELSE IF disk[filepath] < downloaded
               THEN /\ client
                    /\ Report(a, res[a], "FileCorrupted", TRUE)
                    /\ UNCHANGED disk
               ELSE /\ disk' = [disk EXCEPT ![filepath] = downloaded]
                    /\ IF ~client
                       THEN Report(a, res[a], "FailToResumeConnection", TRUE)
                       ELSE /\ res' = [res EXCEPT ![a].pc = "rconnect",
                                                  ![a].buf = 0]
                            /\ UNCHANGED <<resChan, cmdChan>>
    /\ UNCHANGED <<appRunning, list, finished, listener, lastcall, ntask,
                   natt, queue, managerDone, state>>

\* the bytes a response body carries when the request starts at `from`
BodyLength(from) ==
    IF from < ResourceSize THEN ResourceSize - from ELSE 0

\* a resume header write that would forget the length when the range
\* response carries none
ResumeHeadState_ClearsLength(st, accept_range, hdrLen, hdrRanges, downloaded) ==
    IF accept_range
    THEN IF hdrLen # NoneU64
         THEN [st EXCEPT !.content_length = Some(hdrLen[1] + downloaded)]
         ELSE [st EXCEPT !.content_length = NoneU64]
    ELSE [st EXCEPT !.content_length = hdrLen,
                    !.accept_ranges = hdrRanges]

\* a resume header write that would record the length of the range
\* response as the length of the resource
ResumeHeadState_RangeLength(st, accept_range, hdrLen, hdrRanges, downloaded) ==
    IF accept_range
    THEN IF hdrLen # NoneU64
         THEN [st EXCEPT !.content_length = hdrLen]
         ELSE st
    ELSE [st EXCEPT !.content_length = hdrLen,
                    !.accept_ranges = hdrRanges]

\* a resume header write that would derive accept_ranges again in the
\* range branch too
ResumeHeadState_Both(st, accept_range, hdrLen, hdrRanges, downloaded) ==
    IF accept_range
    THEN IF hdrLen # NoneU64
         THEN [st EXCEPT !.content_length = Some(hdrLen[1] + downloaded),
                         !.accept_ranges = hdrRanges]
         ELSE [st EXCEPT !.accept_ranges = hdrRanges]
    ELSE [st EXCEPT !.content_length = hdrLen,
                    !.accept_ranges = hdrRanges]

\* the write of get_resume_download_stream into the TaskState: hdrLen and
\* hdrRanges are the response's Content-Length and Accept-Ranges
ResumeHeadState(st, accept_range, hdrLen, hdrRanges, downloaded) ==
    IF accept_range
    THEN IF hdrLen # NoneU64
         THEN [st EXCEPT !.content_length = Some(hdrLen[1] + downloaded)]
         ELSE st
    ELSE [st EXCEPT !.content_length = hdrLen,
                    !.accept_ranges = hdrRanges]

\* a resumed request that would leave out the Range header
GetResumeDownloadStream_NoRange(a) ==
    /\ res[a].pc = "rconnect"
    /\ LET t == res[a].task
           downloaded == res[a].downloaded
       IN
       \E ok \in BOOLEAN, hasLen \in BOOLEAN, ranges \in BOOLEAN :
          IF ~ok
          THEN /\ hasLen /\ ranges
               /\ Report(a, res[a], "FailToResumeConnection", TRUE)
               /\ UNCHANGED state
          ELSE LET from == 0
                   hdrLen == IF hasLen THEN Some(BodyLength(from)) ELSE NoneU64
               IN
               /\ state' = [state EXCEPT ![t] =
                      ResumeHeadState(state[t], res[a].accept_range, hdrLen,
                                      ranges, downloaded)]
               /\ res' = [res EXCEPT ![a].pc = "stream",
                                     ![a].remaining = BodyLength(from)]
               /\ UNCHANGED <<resChan, cmdChan>>
    /\ UNCHANGED <<appRunning, list, finished, listener, lastcall, ntask,
                   natt, queue, managerDone, disk>>

\* get_resume_download_stream
GetResumeDownloadStream(a) ==
    /\ res[a].pc = "rconnect"
    /\ LET t == res[a].task
           downloaded == res[a].downloaded
       IN
       \E ok \in BOOLEAN, hasLen \in BOOLEAN, ranges \in BOOLEAN :
          IF ~ok
          THEN /\ hasLen /\ ranges
               /\ Report(a, res[a], "FailToResumeConnection", TRUE)
               /\ UNCHANGED state
          ELSE LET from == IF res[a].accept_range THEN downloaded ELSE 0
                   hdrLen == IF hasLen THEN Some(BodyLength(from)) ELSE NoneU64
               IN
               /\ state' = [state EXCEPT ![t] =
                      ResumeHeadState(state[t], res[a].accept_range, hdrLen,
                                      ranges, downloaded)]
               /\ res' = [res EXCEPT ![a].pc = "stream",
                                     ![a].remaining = BodyLength(from)]
               /\ UNCHANGED <<resChan, cmdChan>>
    /\ UNCHANGED <<appRunning, list, finished, listener, lastcall, ntask,
                   natt, queue, managerDone, disk>>

\* --------------------------- specification -----------------------------
Next ==
    \/ \E url \in UrlInputs : AppendNormalTask(url)
    \/ \E index \in 1..MaxTasks : StopTask(index)
    \/ \E index \in 1..MaxTasks : AbortTask(index)
    \/ \E index \in 1..MaxTasks : ResumeTask(index)
    \/ HandleAsync
    \/ Quit
    \/ ManagerSpawn
    \/ ManagerExit
    \/ \E a \in Attempts : NormalPrepare(a)
    \/ \E a \in Attempts : GetDownloadHead(a)
    \/ \E a \in Attempts : CreateDownloadFile(a)
    \/ \E a \in Attempts : DownloadChunk(a)
    \/ \E a \in Attempts : FlushOnCommand(a)
    \/ \E a \in Attempts : StreamEnd(a)
    \/ \E a \in Attempts : ResumeStart(a)
    \/ \E a \in Attempts : ResumeFile(a)
    \/ \E a \in Attempts : GetResumeDownloadStream(a)

Spec == Init /\ [][Next]_vars

\* a session with one download: every submission after the first is left
\* out. The steps on a download read and write its own listener, channels,
\* TaskState and file only (PollListener, the resolver's actions), whatever
\* other downloads are in the list.
SingleNext ==
    Next /\ (ntask' = ntask \/ ntask = 0)

SingleSpec == Init /\ [][SingleNext]_vars

\* the one-download session under the polling of App::run, which calls
\* handle_async in every iteration of its loop; handle_event waits for an
\* event for at most 100 ms, so an iteration never blocks
LiveSpec == Init /\ [][SingleNext]_vars /\ WF_vars(HandleAsync)

NoCalls == [t \in Tasks |-> NoCall]

\* a direct call of TaskListener::try_receive on the listener at `index`,
\* as any holder of the listener may issue it; lastcall keeps what the call
\* saw and returned until the caller has taken the return value
CallTryReceive(index) ==
    /\ appRunning
    /\ lastcall = NoCalls
    /\ index \in 1..Len(list)
    /\ LET t == list[index]
           l == listener[t]
           r == TryReceive(l, resChan[l.result_recv])
       IN  /\ listener' = [listener EXCEPT ![t] = r.l]
           /\ resChan' = [resChan EXCEPT ![l.result_recv] = r.ch]
           /\ lastcall' = [lastcall EXCEPT
                  ![t] = CallRecord(l, resChan[l.result_recv])]
    /\ UNCHANGED <<appRunning, list, finished, ntask, natt, queue,
                   managerDone, res, cmdChan, state, disk>>

CallReturn ==
    /\ lastcall # NoCalls
    /\ lastcall' = NoCalls
    /\ UNCHANGED <<appRunning, list, finished, listener, ntask, natt, queue,
                   managerDone, res, resChan, cmdChan, state, disk>>

NextApi ==
    \/ lastcall = NoCalls /\ SingleNext
    \/ \E index \in 1..MaxTasks : CallTryReceive(index)
    \/ CallReturn

\* the one-download session, with the listener's try_receive also called
\* directly
SpecApi == Init /\ [][NextApi]_vars

\* what lastcall records of a send_command call: the listener and its
\* command channel before it, and the command
CommandRecord(l, chans, command) ==
    [called |-> TRUE, op |-> "send_command", before |-> l,
     chan |-> IF l.command_sender = NoAttempt THEN None
              ELSE chans[l.command_sender],
     command |-> command]

\* a direct call of TaskListener::send_command on the listener at `index`,
\* as any holder of the listener may issue it (DownloadList calls it on
\* listeners that are not stopped only)
CallSendCommand(index, command) ==
    /\ appRunning
    /\ lastcall = NoCalls
    /\ index \in 1..Len(list)
    /\ LET t == list[index]
           l == listener[t]
           r == SendCommand(l, cmdChan, command)
       IN  /\ listener' = [listener EXCEPT ![t] = r.l]
           /\ cmdChan' = r.chans
           /\ lastcall' = [lastcall EXCEPT
                  ![t] = CommandRecord(l, cmdChan, command)]
    /\ UNCHANGED <<appRunning, list, finished, ntask, natt, queue,
                   managerDone, res, resChan, state, disk>>

NextCmd ==
    \/ lastcall = NoCalls /\ SingleNext
    \/ \E index \in 1..MaxTasks, command \in {"Stop", "Abort"} :
          CallSendCommand(index, command)
    \/ CallReturn

\* the one-download session, with the listener's send_command also called
\* directly
SpecCmd == Init /\ [][NextCmd]_vars

\* the receiving end of the submission queue goes away while the App still
\* runs: the TaskManager is dropped with its runtime, the Tasks still queued
\* and every resolver suspended at an await. run_app keeps the manager
\* until the App has returned (ManagerExit); the queue itself allows its
\* receiver to be dropped at any time
ManagerLost ==
    /\ ~managerDone
    /\ appRunning
    /\ managerDone' = TRUE
    /\ queue' = <<>>
    /\ LET queued == {queue[i].att : i \in 1..Len(queue)}
           gone(a) == a \in queued \/ Running(res[a].pc)
       IN  /\ res' = [a \in DOMAIN res |->
                         IF Running(res[a].pc) THEN Ended(res[a], "cancelled")
                         ELSE res[a]]
           /\ resChan' = [a \in DOMAIN res |->
                             IF gone(a) THEN DropSender(resChan[a])
                             ELSE resChan[a]]
           /\ cmdChan' = [a \in DOMAIN res |->
                             IF gone(a) THEN DropReceiver(cmdChan[a])
                             ELSE cmdChan[a]]
    /\ UNCHANGED <<appRunning, list, finished, listener, lastcall, ntask,
                   natt, state, disk>>

NextClosed ==
    \/ SingleNext
    \/ ManagerLost

\* the one-download session in which the queue may be closed under the App
SpecClosed == Init /\ [][NextClosed]_vars

\* the one-download session with the manager's thread scheduled: the
\* receive loop takes a waiting Task, and returns once the queue is closed
\* and empty
LiveManager ==
    Init /\ [][SingleNext]_vars /\ WF_vars(ManagerSpawn) /\ WF_vars(ManagerExit)

\* a submission that would not wait for room in the queue
BlockingSend_NoWait ==
    /\ appRunning
    /\ ~QueueClosed
    /\ natt < MaxSubmissions
    /\ natt' = natt + 1
    /\ queue' = Append(queue,
           [task |-> natt + 1, request |-> "Normal", url |-> "http://h/a",
            att |-> natt + 1])
    /\ UNCHANGED <<appRunning, list, finished, listener, lastcall, ntask,
                   managerDone, res, resChan, cmdChan, state, disk>>

\* Sender::send_normal_request seen from the queue alone: blocking_send
\* returns once the channel has room for the Task, which carries the number
\* of its submission
BlockingSend ==
    /\ appRunning
    /\ ~QueueClosed
    /\ natt < MaxSubmissions
    /\ Len(queue) < QueueCapacity
    /\ natt' = natt + 1
    /\ queue' = Append(queue,
           [task |-> natt + 1, request |-> "Normal", url |-> "http://h/a",
            att |-> natt + 1])
    /\ UNCHANGED <<appRunning, list, finished, listener, lastcall, ntask,
                   managerDone, res, resChan, cmdChan, state, disk>>

\* TaskManager::run seen from the queue alone: recv takes the oldest Task
QueueRecv ==
    /\ ~managerDone
    /\ queue # <<>>
    /\ queue' = Tail(queue)
    /\ UNCHANGED <<appRunning, list, finished, listener, lastcall, ntask,
                   natt, managerDone, res, resChan, cmdChan, state, disk>>

NextQueue ==
    \/ BlockingSend
    \/ QueueRecv

\* the traffic on the submission queue of a session with more submissions
\* than the queue holds
SpecQueue == Init /\ [][NextQueue]_vars

\* ---------------------------- TaskState locks --------------------------
\* The session seen at its Mutex<TaskState> alone. Every use of the lock in
\* resolve.rs and listener.rs is a block `{ let g = state.lock().unwrap();
\* reads and assignments }` placed between two suspension points of its
\* context, so a resolver is at an await ("await"), calling Mutex::lock
\* ("lock"), inside a block ("section") or finished ("done"); the front end
\* is between blocks or inside one, which lastcall records with the clone it
\* takes there.
LockTasks == 1..MaxLockTasks

FrontEndHolder == 0

\* the contexts that hold the guard of task t: resolvers by their number,
\* the front end as FrontEndHolder
Holders(t) ==
    {a \in LockTasks : res[a].task = t /\ res[a].pc = "section"}
       \cup (IF lastcall[t].called THEN {FrontEndHolder} ELSE {})

\* LockTasks downloads submitted and spawned, each resolver suspended on
\* its request, each listener in the list
InitLock ==
    /\ appRunning = TRUE
    /\ list = [t \in LockTasks |-> t]
    /\ finished = <<>>
    /\ listener = [t \in LockTasks |-> NewListener(t)]
    /\ lastcall = [t \in LockTasks |-> NoCall]
    /\ ntask = MaxLockTasks
    /\ natt = MaxLockTasks
    /\ queue = <<>>
    /\ managerDone = FALSE
    /\ res = [a \in LockTasks |->
                 [NoResolver EXCEPT !.task = a, !.request = "Normal",
                                    !.pc = "await",
                                    !.remaining = ResourceSize]]
    /\ resChan = [a \in LockTasks |-> "empty"]
    /\ cmdChan = [a \in LockTasks |-> "empty"]
    /\ state = [t \in LockTasks |-> NewTaskState]
    /\ disk = [p \in Paths |-> NoFile]

\* the await of resolver a completes (response, chunk and write_all, file
\* opened): it goes on to its next block, or returns when none is left
AwaitDone(a) ==
    /\ res[a].pc = "await"
    /\ res' = [res EXCEPT ![a].pc =
                  IF res[a].remaining > 0 THEN "lock" ELSE "done"]
    /\ UNCHANGED <<appRunning, list, finished, listener, lastcall, ntask,
                   natt, queue, managerDone, resChan, cmdChan, state, disk>>

\* task.state.lock() of resolver a returns the guard once nobody holds it
LockAcquire(a) ==
    /\ res[a].pc = "lock"
    /\ Holders(res[a].task) = {}
    /\ res' = [res EXCEPT ![a].pc = "section"]
    /\ UNCHANGED <<appRunning, list, finished, listener, lastcall, ntask,
                   natt, queue, managerDone, resChan, cmdChan, state, disk>>

\* a block that would wait for a command before it drops the guard
LockRelease_AfterCommand(a) ==
    /\ res[a].pc = "section"
    /\ cmdChan[a] # "empty"
    /\ state' = [state EXCEPT ![res[a].task] = ChunkState(@, 1)]
    /\ res' = [res EXCEPT ![a].pc = "await",
                          ![a].remaining = res[a].remaining - 1]
    /\ UNCHANGED <<appRunning, list, finished, listener, lastcall, ntask,
                   natt, queue, managerDone, resChan, cmdChan, disk>>

\* the block of resolver a ends: its assignments are made and the guard is
\* dropped, before the next await
LockRelease(a) ==
    /\ res[a].pc = "section"
    /\ state' = [state EXCEPT ![res[a].task] = ChunkState(@, 1)]
    /\ res' = [res EXCEPT ![a].pc = "await",
                          ![a].remaining = res[a].remaining - 1]
    /\ UNCHANGED <<appRunning, list, finished, listener, lastcall, ntask,
                   natt, queue, managerDone, resChan, cmdChan, disk>>

\* the front end, between two blocks, enters the one of task t (render of
\* its listener, into_finished_task) and clones the TaskState
FrontAcquire(t) ==
    /\ appRunning
    /\ \A u \in LockTasks : ~lastcall[u].called
    /\ Holders(t) = {}
    /\ lastcall' = [lastcall EXCEPT ![t] =
           [called |-> TRUE, op |-> "lock", cloned_state |-> state[t]]]
    /\ UNCHANGED <<appRunning, list, finished, listener, ntask, natt, queue,
                   managerDone, res, resChan, cmdChan, state, disk>>

\* the block of the front end ends and the guard is dropped
FrontRelease(t) ==
    /\ lastcall[t].called
    /\ lastcall' = [lastcall EXCEPT ![t] = NoCall]
    /\ UNCHANGED <<appRunning, list, finished, listener, ntask, natt, queue,
                   managerDone, res, resChan, cmdChan, state, disk>>

NextLock ==
    \/ \E a \in LockTasks : AwaitDone(a)
    \/ \E a \in LockTasks : LockAcquire(a)
    \/ \E a \in LockTasks : LockRelease(a)
    \/ \E t \in LockTasks : FrontAcquire(t)
    \/ \E t \in LockTasks : FrontRelease(t)

SpecLock == InitLock /\ [][NextLock]_vars

\* --------------------------- file names --------------------------------
\* get_filename_no_duplicate on every directory over the requested name (0)
\* and its numbered names
NamePaths == 0..MaxNames

InitNames ==
    /\ appRunning = TRUE
    /\ list = <<>>
    /\ finished = <<>>
    /\ listener = [t \in Tasks |-> NoListener]
    /\ lastcall = [t \in Tasks |-> NoCall]
    /\ ntask = 0
    /\ natt = 0
    /\ queue = <<>>
    /\ managerDone = FALSE
    /\ res = [a \in Attempts |-> NoResolver]
    /\ resChan = [a \in Attempts |-> "unused"]
    /\ cmdChan = [a \in Attempts |-> "unused"]
    /\ state = [t \in Tasks |-> NewTaskState]
    /\ disk \in [NamePaths -> {NoFile, 0}]

\* get_download_head resolves the destination of task t in the directory
\* as it is, and create_download_file creates the file
ResolveName(t) ==
    LET dest == get_filename_no_duplicate(disk) IN
    /\ dest \in NamePaths
    /\ state' = [state EXCEPT ![t].filepath = dest]
    /\ disk' = [disk EXCEPT ![dest] = 0]
    /\ UNCHANGED <<appRunning, list, finished, listener, lastcall, ntask,
                   natt, queue, managerDone, res, resChan, cmdChan>>

NextNames ==
    \E t \in Tasks : ResolveName(t)

SpecNames == InitNames /\ [][NextNames]_vars

\* ------------------------------ rendering ------------------------------
\* TaskState::ui_update once REFRESH_INTERVAL has elapsed: the bytes since
\* the last update are downloaded - last_downloaded, and last_downloaded
\* takes the value of downloaded (the speed and the instant are left out)
ui_update(st) ==
    [st EXCEPT !.last_downloaded = st.downloaded]

\* the render of the listener at `index` (App::run draws every frame): the
\* TaskState is updated under its lock when the interval has elapsed. The
\* u64 subtraction of ui_update, when downloaded is below last_downloaded,
\* panics where overflow is checked (App::run unwinds and the App is
\* dropped, as on Quit) and wraps where it is not.
Render(index, elapsed) ==
    /\ appRunning
    /\ index \in 1..Len(list)
    /\ elapsed
    /\ LET t == list[index] IN
       \/ /\ state[t].downloaded < state[t].last_downloaded
          /\ Quit
       \/ /\ state' = [state EXCEPT ![t] = ui_update(state[t])]
          /\ UNCHANGED <<appRunning, list, finished, listener, lastcall,
                         ntask, natt, queue, managerDone, res, resChan,
                         cmdChan, disk>>

NextRender ==
    \/ SingleNext
    \/ \E index \in 1..MaxTasks, elapsed \in BOOLEAN : Render(index, elapsed)

\* the one-download session with its listener rendered at any moment
SpecRender == Init /\ [][NextRender]_vars

\* ------------------------- several downloads ---------------------------
\* The front end of a session with up to MaxListTasks downloads and one
\* resume. The engine is seen from the listeners alone: the resolver of a
\* spawned attempt runs to its end and delivers a result of some kind, or
\* panics before any; the TaskState and the files are left as they are.
ListTasks == 1..MaxListTasks

ListAttempts == 1..(MaxListTasks + 1)

InitList ==
    /\ appRunning = TRUE
    /\ list = <<>>
    /\ finished = <<>>
    /\ listener = [t \in ListTasks |-> NoListener]
    /\ lastcall = [t \in ListTasks |-> NoCall]
    /\ ntask = 0
    /\ natt = 0
    /\ queue = <<>>
    /\ managerDone = FALSE
    /\ res = [a \in ListAttempts |-> NoResolver]
    /\ resChan = [a \in ListAttempts |-> "unused"]
    /\ cmdChan = [a \in ListAttempts |-> "unused"]
    /\ state = [t \in ListTasks |-> NewTaskState]
    /\ disk = [p \in Paths |-> NoFile]

\* what handle_async looks at in a polled result: whether it retires the
\* task, and whether it is Finished
StageKind(stage) ==
    <<RemoveHint(stage), stage = "Finished">>

\* one stage of each kind
ListStages ==
    {CHOOSE stage \in Stages : StageKind(stage) = k :
        k \in {StageKind(stage) : stage \in Stages}}

\* handle_task of attempt a from its spawn to its end
AttemptEnds(a) ==
    /\ res[a].pc = "start"
    /\ \/ \E stage \in ListStages : Report(a, res[a], stage, TRUE)
       \/ Panic(a, res[a])
    /\ UNCHANGED <<appRunning, list, finished, listener, lastcall, ntask,
                   natt, queue, managerDone, state, disk>>

NextList ==
    \/ AppendNormalTask("http://h/a")
    \/ \E index \in ListTasks : StopTask(index)
    \/ \E index \in ListTasks : AbortTask(index)
    \/ \E index \in ListTasks : ResumeTask(index)
    \/ HandleAsync
    \/ ManagerSpawn
    \/ ManagerLost
    \/ \E a \in ListAttempts : AttemptEnds(a)

SpecList == InitList /\ [][NextList]_vars

\* ------------------------ concurrent downloads -------------------------
\* two Normal downloads of the same URL, submitted and spawned
\* (tokio::spawn in TaskManager::run), their resolvers running concurrently
\* on the runtime up to the end of the stream
RaceTasks == {1, 2}

InitRace ==
    /\ appRunning = TRUE
    /\ list = [t \in RaceTasks |-> t]
    /\ finished = <<>>
    /\ listener = [t \in RaceTasks |-> NewListener(t)]
    /\ lastcall = [t \in RaceTasks |-> NoCall]
    /\ ntask = Cardinality(RaceTasks)
    /\ natt = Cardinality(RaceTasks)
    /\ queue = <<>>
    /\ managerDone = FALSE
    /\ res = [a \in RaceTasks |->
                 [NoResolver EXCEPT !.task = a, !.request = "Normal",
                                    !.url = "http://h/a", !.pc = "start"]]
    /\ resChan = [a \in RaceTasks |-> "empty"]
    /\ cmdChan = [a \in RaceTasks |-> "empty"]
    /\ state = [t \in RaceTasks |-> NewTaskState]
    /\ disk = [p \in 0..Cardinality(RaceTasks) |-> NoFile]

NextRace ==
    \/ \E a \in RaceTasks : NormalPrepare(a)
    \/ \E a \in RaceTasks : GetDownloadHead(a)
    \/ \E a \in RaceTasks : CreateDownloadFile(a)
    \/ \E a \in RaceTasks : DownloadChunk(a)
    \/ \E a \in RaceTasks : StreamEnd(a)

SpecRace == InitRace /\ [][NextRace]_vars

\* ------------------------------- claims --------------------------------
FlushedStages == {"Finished", "Interrupted", "Abort"}

\* the attempts whose resolver can still mutate the TaskState of task t
ActiveOn(t) == {a \in Attempts : res[a].task = t /\ Running(res[a].pc)}

\* C1: every resolver attempt that has terminated has sent exactly one
\* TaskResult on its result channel, never zero and never two.
C1_ExactlyOneResult ==
    \A a \in Attempts : Terminated(res[a].pc) => res[a].nsent = 1

\* C2: at most one resolver is active on a TaskState at any instant, and a
\* Resume attempt is submitted and started only when every earlier attempt
\* on that TaskState has terminated.
C2_SingleActiveResolver ==
    /\ \A t \in Tasks : Cardinality(ActiveOn(t)) <= 1
    /\ \A a, b \in Attempts :
          (a < b /\ res[b].request = "Resume" /\ res[a].task = res[b].task)
              => Terminated(res[a].pc)
    /\ \A i \in 1..Len(queue) : \A a \in Attempts :
          (queue[i].request = "Resume" /\ res[a].task = queue[i].task)
              => Terminated(res[a].pc)

C2_Witness ==
    \E a \in Attempts : res[a].request = "Resume" /\ Running(res[a].pc)

\* C3: a result of Finished, Interrupted or Abort is sent, and so observed
\* by the listener, only when the buffered writer holds no unflushed bytes.
C3_FlushBeforeResult ==
    /\ \A a \in Attempts :
          resChan[a] \in FlushedStages => res[a].buf = 0
    /\ \A t \in Tasks :
          (listener[t].task_result \in FlushedStages)
              => res[listener[t].result_recv].buf = 0

C3_Witness ==
    \E t \in Tasks :
       /\ listener[t].task_result = "Interrupted"
       /\ state[t].downloaded > 0
       /\ disk[state[t].filepath] = state[t].downloaded

\* C4: downloaded never decreases, except for the reset to 0 by the start
\* of a Resume attempt whose TaskState records accept_ranges = false.
C4_DownloadedMonotone ==
    [][\A t \in Tasks :
          state'[t].downloaded < state[t].downloaded
              => /\ state'[t].downloaded = 0
                 /\ ~state[t].accept_ranges
                 /\ \E a \in Attempts :
                       /\ res[a].task = t
                       /\ res[a].request = "Resume"
                       /\ res[a].pc = "start"
                       /\ res'[a].pc = "rfile"]_vars

C4_Witness ==
    \E a \in Attempts :
       /\ res[a].request = "Resume"
       /\ res[a].pc = "rfile"
       /\ ~res[a].accept_range
       /\ state[res[a].task].downloaded = 0
       /\ disk[state[res[a].task].filepath] > 0

\* C5: in every state, downloaded > 0 implies that the destination path
\* and the URL are recorded in the TaskState.
C5_ProgressImpliesHeader ==
    \A t \in Tasks :
       state[t].downloaded > 0
           => state[t].filepath # NoPath /\ state[t].url # None

C5_Witness ==
    \E a \in Attempts :
       /\ res[a].request = "Normal"
       /\ res[a].pc = "stream"
       /\ state[res[a].task].downloaded > 0

\* C6: while an attempt streams chunks (from the end of header resolution
\* to its terminal result) no step changes the content_length of its
\* TaskState.
C6_ContentLengthStable ==
    [][\A a \in Attempts :
          res[a].pc \in {"stream", "flush"}
              => state'[res[a].task].content_length
                     = state[res[a].task].content_length]_vars

C6_Witness ==
    \E a \in Attempts :
       /\ res[a].pc = "stream"
       /\ state[res[a].task].content_length # NoneU64
       /\ state[res[a].task].downloaded > 0

\* C7 (as stated): once accept_ranges has been derived from response
\* headers, no later step changes it.
C7_AcceptRangesFixed ==
    [][\A t \in Tasks :
          state[t].url # None
              => state'[t].accept_ranges = state[t].accept_ranges]_vars

\* C7 (amended): once accept_ranges has been derived from response headers,
\* the only step that changes it is the reconnect of a Resume attempt on a
\* TaskState whose accept_ranges is false, which derives it again.
C7_AcceptRangesRederivedOnlyWhenFalse ==
    [][\A t \in Tasks :
          (state[t].url # None
             /\ state'[t].accept_ranges # state[t].accept_ranges)
              => /\ ~state[t].accept_ranges
                 /\ \E a \in Attempts :
                       /\ res[a].task = t
                       /\ res[a].request = "Resume"
                       /\ ~res[a].accept_range
                       /\ res[a].pc = "rconnect"
                       /\ res'[a].pc = "stream"]_vars

C7_Witness ==
    \E a \in Attempts :
       /\ res[a].request = "Resume"
       /\ res[a].pc = "stream"
       /\ ~res[a].accept_range
       /\ state[res[a].task].accept_ranges

\* C8: a try_receive call on a listener that has a cached result returns
\* that same result, leaves it cached and does not touch the channel.
C8_TryReceiveIdempotent ==
    \A t \in Tasks :
       (lastcall[t].called /\ lastcall[t].pre # None)
           => /\ lastcall[t].ret = lastcall[t].pre
              /\ lastcall[t].cached = lastcall[t].pre
              /\ ~lastcall[t].touched

C8_Witness ==
    \E t \in Tasks :
       /\ lastcall[t].called
       /\ lastcall[t].pre \in Stages
       /\ lastcall[t].ret = lastcall[t].pre

\* C9: a try_receive call that finds the result channel closed without a
\* value caches and returns UnknownError; one that finds it empty returns
\* None and caches nothing.
C9_ClosedSynthesizesUnknownError ==
    \A t \in Tasks :
       (lastcall[t].called /\ lastcall[t].pre = None /\ ~lastcall[t].flagged)
           => /\ lastcall[t].chan = "closed"
                  => /\ lastcall[t].ret = "UnknownError"
                     /\ lastcall[t].cached = "UnknownError"
              /\ lastcall[t].chan = "empty"
                  => /\ lastcall[t].ret = None
                     /\ lastcall[t].cached = None

C9_Witness ==
    \E t \in Tasks :
       /\ lastcall[t].called
       /\ lastcall[t].chan = "closed"
       /\ lastcall[t].ret = "UnknownError"
       /\ listener[t].task_result = "UnknownError"
       /\ res[listener[t].result_recv].nsent = 0

\* the attempt whose result receiver the listener of task t holds has
\* terminated, and the listener is in the list with no result yet
Unobserved(t) ==
    /\ InList(t)
    /\ listener[t].task_result = None
    /\ Terminated(res[listener[t].result_recv].pc)

\* C10: once the resolver of an attempt has terminated, by sending a result
\* or without one, polling eventually gives the attempt's listener a
\* terminal result (unless the App quits first).
C10_PollingConverges ==
    \A t \in Tasks :
       Unobserved(t) ~> (listener[t].task_result # None \/ ~appRunning)

C10_Witness ==
    \E t \in Tasks :
       /\ appRunning
       /\ listener[t].task_result = "UnknownError"
       /\ res[listener[t].result_recv].pc = "panicked"

TaskCommands == {"Stop", "Abort"}

\* C11: a TaskCommand is delivered to an attempt only through the command
\* endpoint its listener holds, and the delivery consumes that endpoint; an
\* endpoint is handed to a listener only with a fresh channel. So at most
\* one command reaches an attempt, and a call made after the endpoint was
\* consumed delivers nothing.
C11_AtMostOneCommand ==
    [][\A a \in Attempts :
          /\ (cmdChan'[a] \in TaskCommands /\ cmdChan'[a] # cmdChan[a])
                => /\ cmdChan[a] = "empty"
                   /\ \E t \in Tasks :
                         /\ listener[t].command_sender = a
                         /\ listener'[t].command_sender = NoAttempt
          /\ \A t \in Tasks :
                (listener'[t].command_sender = a
                    /\ listener[t].command_sender # a)
                    => cmdChan[a] = "unused" /\ cmdChan'[a] = "empty"]_vars

C11_Witness ==
    \E t \in Tasks :
       /\ InList(t)
       /\ listener[t].command_sender = NoAttempt
       /\ cmdChan[listener[t].result_recv] \in TaskCommands

\* C12 (as stated): a send_command call on a stopped listener delivers no
\* command and leaves the listener, its command endpoint included, as it
\* was.
C12_StoppedSendIsNoOp ==
    \A t \in Tasks :
       (lastcall[t].called /\ lastcall[t].before.stopped)
           => /\ listener[t] = lastcall[t].before
              /\ lastcall[t].before.command_sender # NoAttempt
                    => cmdChan[lastcall[t].before.command_sender]
                           = lastcall[t].chan

\* C12 (amended): a send_command call on a stopped listener delivers no
\* command and leaves the cached result, the flags and the result receiver
\* as they were, but it takes the command endpoint the listener still held
\* and drops it.
C12_StoppedSendOnlyTakesEndpoint ==
    \A t \in Tasks :
       (lastcall[t].called /\ lastcall[t].before.stopped)
           => /\ listener[t] =
                    [lastcall[t].before EXCEPT !.command_sender = NoAttempt]
              /\ lastcall[t].before.command_sender # NoAttempt
                    => cmdChan[lastcall[t].before.command_sender]
                           = DropSender(lastcall[t].chan)

C12_Witness ==
    \E t \in Tasks :
       /\ lastcall[t].called
       /\ lastcall[t].before.stopped
       /\ lastcall[t].before.command_sender # NoAttempt
       /\ listener[t].command_sender = NoAttempt
       /\ listener[t].task_result = lastcall[t].before.task_result

\* a Resume Task for task t is submitted by the step
ResumeSubmitted(t) ==
    /\ natt' = natt + 1
    /\ ntask' = ntask
    /\ queue' # <<>>
    /\ queue'[Len(queue')].att = natt'
    /\ queue'[Len(queue')].task = t

\* C13: while a listener of the list is not stopped, no step submits a
\* Resume Task for it, replaces its channel endpoints or clears its cached
\* result (a resume_task call on it changes nothing).
C13_ResumeNeedsStopped ==
    [][\A t \in Tasks :
          (InList(t) /\ ~listener[t].stopped)
              => /\ ~ResumeSubmitted(t)
                 /\ \/ listener'[t] = NoListener
                    \/ /\ listener'[t].result_recv = listener[t].result_recv
                       /\ listener'[t].command_sender
                              \in {listener[t].command_sender, NoAttempt}
                       /\ listener[t].task_result # None
                              => listener'[t].task_result
                                     = listener[t].task_result]_vars

C13_Witness ==
    \E t \in Tasks :
       /\ appRunning
       /\ InList(t)
       /\ ~listener[t].stopped
       /\ listener[t].command_sender = NoAttempt
       /\ natt < MaxAttempts
       /\ res[listener[t].result_recv].pc = "stream"

\* C14: a step that submits a Resume Task does so for a stopped listener:
\* it appends exactly one Task, which names the listener's own TaskState
\* (no TaskState is allocated or written), gives the listener the fresh
\* result receiver and command sender of the new attempt, and clears its
\* cached result and its processed and stopped flags.
C14_ResumeReplacesEndpoints ==
    [][\A t \in Tasks :
          ResumeSubmitted(t)
              => /\ InList(t) /\ listener[t].stopped
                 /\ queue' = Append(queue,
                        [task |-> t, request |-> "Resume", url |-> None,
                         att |-> natt'])
                 /\ state' = state
                 /\ listener'[t] =
                        [task_result |-> None, processed |-> FALSE,
                         stopped |-> FALSE, result_recv |-> natt',
                         command_sender |-> natt']
                 /\ listener[t].result_recv # natt'
                 /\ resChan[natt'] = "unused" /\ resChan'[natt'] = "empty"
                 /\ cmdChan[natt'] = "unused" /\ cmdChan'[natt'] = "empty"
                 /\ resChan'[listener[t].result_recv] = "rxdropped"]_vars

C14_Witness ==
    \E i \in 1..Len(queue) :
       /\ queue[i].request = "Resume"
       /\ listener[queue[i].task].result_recv = queue[i].att
       /\ listener[queue[i].task].command_sender = queue[i].att
       /\ listener[queue[i].task].task_result = None
       /\ ~listener[queue[i].task].stopped
       /\ state[queue[i].task].downloaded > 0

\* C15: a resume of a stopped listener while the submission queue is closed
\* starts no attempt and no resolver and writes no TaskState; the listener
\* keeps its cached result, its stopped flag and its endpoints, and the
\* DownloadList retires the task: it leaves the list and its entry, built
\* from the listener and the shared TaskState, is appended to the finished
\* list.
C15_ResumeOnClosedQueueRetires ==
    [][\A index \in 1..MaxTasks :
          (/\ index <= Len(list)
           /\ QueueClosed
           /\ listener[list[index]].stopped
           /\ ResumeTask(index))
              => LET t == list[index] IN
                 /\ natt' = natt /\ queue' = queue
                 /\ res' = res /\ state' = state
                 /\ listener'[t].stopped
                 /\ listener'[t].task_result = listener[t].task_result
                 /\ listener'[t].result_recv = listener[t].result_recv
                 /\ listener'[t].command_sender = listener[t].command_sender
                 /\ list' = RemoveAt(list, index)
                 /\ finished' = Append(finished,
                        FinishedEntry(t, listener[t], state[t]))]_vars

C15_Witness ==
    \E i \in 1..Len(finished) :
       /\ appRunning
       /\ managerDone
       /\ natt < MaxAttempts
       /\ listener[finished[i].task].stopped
       /\ listener[finished[i].task].task_result = "Interrupted"
       /\ finished[i].downloaded > 0
       /\ finished[i].state = "Failure"
       /\ list = <<>>

\* C16: an entry of the finished list is Success exactly when the cached
\* result of its listener is Finished (no result and every other stage give
\* Failure), and a Success entry has a content_length: the one recorded in
\* the TaskState when there is one, else the downloaded count.
C16_SuccessIffFinished ==
    \A i \in 1..Len(finished) :
       LET e == finished[i]
           l == listener[e.task]
           st == state[e.task]
       IN  /\ e.state \in {"Success", "Failure"}
           /\ e.state = "Success" <=> l.task_result = "Finished"
           /\ e.state = "Success" =>
                 /\ e.content_length # NoneU64
                 /\ st.content_length # NoneU64
                       => e.content_length = st.content_length
                 /\ st.content_length = NoneU64
                       => e.content_length = Some(e.downloaded)

C16_Witness ==
    \E i \in 1..Len(finished) :
       /\ finished[i].state = "Success"
       /\ state[finished[i].task].content_length = NoneU64
       /\ finished[i].content_length = Some(ResourceSize)

\* C17: the finished entry of a task that reached Finished has
\* content_length equal to downloaded, whether the length came from the
\* response headers (of the first request or of a resumed one) or was
\* backfilled.
C17_FinishedEntryComplete ==
    \A i \in 1..Len(finished) :
       listener[finished[i].task].task_result = "Finished"
          => finished[i].content_length = Some(finished[i].downloaded)

C17_Witness ==
    \E i \in 1..Len(finished), a \in Attempts :
       /\ listener[finished[i].task].task_result = "Finished"
       /\ listener[finished[i].task].result_recv = a
       /\ res[a].request = "Resume"
       /\ state[finished[i].task].accept_ranges
       /\ state[finished[i].task].content_length = Some(ResourceSize)
       /\ finished[i].downloaded = ResourceSize

\* the step in which the resolver of attempt a takes a command off its
\* command channel
CommandTaken(a) ==
    cmdChan[a] \in TaskCommands /\ cmdChan'[a] = "taken"

\* the command is taken in a streaming step that has written one chunk and
\* added it to downloaded, and that does nothing else than note which
\* result is to follow
TakenAtChunkBoundary(a) ==
    LET t == res[a].task IN
    /\ res[a].pc = "stream"
    /\ res'[a].pc = "flush"
    /\ res'[a].remaining = res[a].remaining - 1
    /\ state'[t].downloaded = state[t].downloaded + 1
    /\ res'[a].after = IF cmdChan[a] = "Stop" THEN "Interrupted" ELSE "Abort"
    /\ resChan' = resChan

\* the resolver of attempt a has taken a command and ends in this step
EndsAfterCommand(a) ==
    res[a].pc = "flush" /\ res'[a] # res[a]

\* no chunk is processed once the command was taken, in the ending step or
\* after it
NoChunkAfterCommand(a) ==
    /\ EndsAfterCommand(a)
          => /\ ~Running(res'[a].pc)
             /\ state'[res[a].task].downloaded = state[res[a].task].downloaded
    /\ ~Running(res[a].pc) /\ res[a].pc # "none" => res'[a] = res[a]

\* C18 as stated: a command is taken at a chunk boundary only, the resolver
\* then processes no further chunk, and the result it sends is Interrupted
\* after Stop and Abort after Abort.
C18_CommandAlwaysReported ==
    [][\A a \in Attempts :
          /\ CommandTaken(a) <=> (res[a].pc # "flush" /\ res'[a].pc = "flush")
          /\ CommandTaken(a) => TakenAtChunkBoundary(a)
          /\ NoChunkAfterCommand(a)
          /\ (EndsAfterCommand(a) /\ res'[a].pc # "cancelled")
                => /\ res'[a].nsent = res[a].nsent + 1
                   /\ resChan[a] = "empty" => resChan'[a] = res[a].after]_vars

\* C18: a command is taken at a chunk boundary only, after the chunk was
\* written and added to downloaded, and the resolver then processes no
\* further chunk: it flushes and sends one result, which is Interrupted
\* after Stop and Abort after Abort when the flush succeeded and FailToWrite
\* when it failed.
C18_CommandReportedUnlessFlushFails ==
    [][\A a \in Attempts :
          /\ CommandTaken(a) <=> (res[a].pc # "flush" /\ res'[a].pc = "flush")
          /\ CommandTaken(a) => TakenAtChunkBoundary(a)
          /\ NoChunkAfterCommand(a)
          /\ (EndsAfterCommand(a) /\ res'[a].pc # "cancelled")
                => /\ res'[a].nsent = res[a].nsent + 1
                   /\ resChan[a] = "empty"
                         => resChan'[a] \in {res[a].after, "FailToWrite"}
                   /\ resChan'[a] = res[a].after
                         => LET f == state[res[a].task].filepath IN
                            /\ res'[a].buf = 0
                            /\ disk'[f] = disk[f] + res[a].buf
                   /\ resChan'[a] = "FailToWrite" => disk' = disk]_vars

C18_Witness ==
    \E a \in Attempts :
       /\ res[a].pc = "done"
       /\ resChan[a] = "Abort"
       /\ cmdChan[a] = "rxdropped"
       /\ state[res[a].task].downloaded > 0
       /\ state[res[a].task].downloaded < ResourceSize

\* C19: a resolver that has processed a chunk and finds its command
\* channel closed, the sender dropped without a command, sends UnknownError
\* and returns without processing another chunk and without flushing; the
\* result is delivered when the result channel is still open, and when it
\* is not the resolver returns all the same instead of panicking.
C19_ClosedCommandChannelEndsStream ==
    [][\A a \in Attempts :
          LET t == res[a].task
              f == state[t].filepath
          IN
          (/\ res[a].pc = "stream"
           /\ cmdChan[a] = "closed"
           /\ state'[t].downloaded = state[t].downloaded + 1)
             => /\ res'[a].pc = "done"
                /\ res'[a].nsent = res[a].nsent + 1
                /\ resChan'[a] = IF resChan[a] = "empty" THEN "UnknownError"
                                 ELSE resChan[a]
                /\ res'[a].buf > 0
                /\ disk'[f] + res'[a].buf = disk[f] + res[a].buf + 1]_vars

C19_Witness ==
    \E a \in Attempts :
       /\ ~appRunning
       /\ res[a].pc = "done"
       /\ res[a].nsent = 1
       /\ res[a].buf > 0
       /\ resChan[a] = "rxdropped"
       /\ cmdChan[a] = "rxdropped"
       /\ listener[res[a].task] = NoListener
       /\ state[res[a].task].downloaded = 1

\* the front end has polled the result `stage` of task t
Observed(t, stage) ==
    listener[t].processed /\ listener[t].task_result = stage

\* the step in which handle_async receives the result `stage` of task t
Observes(t, stage) ==
    /\ InList(t)
    /\ listener[t].task_result = None
    /\ listener'[t].task_result = stage
    /\ listener'[t].processed

\* C20 as stated: a task whose result the front end has observed to be
\* Interrupted or Abort is not in the active download list.
C20_InterruptedAndAbortLeaveList ==
    \A t \in Tasks :
       (Observed(t, "Interrupted") \/ Observed(t, "Abort")) => ~InList(t)

\* C20: the poll that observes Abort retires the task: it leaves the active
\* list and gets a Failure entry in the finished list. The poll that
\* observes Interrupted keeps the task in the active list, marked processed
\* and stopped, with its TaskState untouched (URL and file path recorded),
\* which is what a resume needs; it gets no finished entry.
C20_AbortRetiresInterruptedStays ==
    [][\A t \in Tasks :
          /\ Observes(t, "Abort")
                => /\ \A i \in 1..Len(list') : list'[i] # t
                   /\ Len(finished') = Len(finished) + 1
                   /\ finished'[Len(finished')] =
                         FinishedEntry(t, listener'[t], state[t])
                   /\ finished'[Len(finished')].state = "Failure"
          /\ Observes(t, "Interrupted")
                => /\ list' = list
                   /\ finished' = finished
                   /\ ResumeAllowed(listener'[t])
                   /\ state' = state
                   /\ state[t].url # None
                   /\ state[t].filepath # NoPath
                   /\ disk[state[t].filepath] # NoFile]_vars

C20_Witness ==
    \E t \in Tasks :
       /\ appRunning
       /\ InList(t)
       /\ Observed(t, "Interrupted")
       /\ listener[t].stopped
       /\ finished = <<>>
       /\ state[t].downloaded > 0

\* task t has an entry in the finished list
InFinished(t) ==
    \E i \in 1..Len(finished) : finished[i].task = t

\* C21: while the App runs, a task whose Abort result was polled, and a
\* stopped task to which abort_task was applied, is in the finished list and
\* not in the active list; a task that is in the finished list never
\* returns to the active list and no step submits a Resume Task for it.
C21_AbortForfeitsResume ==
    [][\A t \in Tasks :
          /\ (appRunning /\ Observed(t, "Abort"))
                => InFinished(t) /\ ~InList(t)
          /\ \A index \in 1..MaxTasks :
                (/\ index <= Len(list)
                 /\ list[index] = t
                 /\ listener[t].stopped
                 /\ AbortTask(index))
                   => /\ \E i \in 1..Len(finished') : finished'[i].task = t
                      /\ \A i \in 1..Len(list') : list'[i] # t
          /\ InFinished(t)
                => /\ ~InList(t)
                   /\ ~ResumeSubmitted(t)
                   /\ \A i \in 1..Len(list') : list'[i] # t
                   /\ \A a \in Attempts : res'[a].pc = "start" /\ res[a].pc = "none"
                         => res'[a].task # t]_vars

C21_Witness ==
    \E t \in Tasks :
       /\ appRunning
       /\ ~managerDone
       /\ InFinished(t)
       /\ ~InList(t)
       /\ listener[t].task_result = "Interrupted"
       /\ listener[t].stopped
       /\ natt < MaxAttempts
       /\ state[t].url # None

\* the resolver of attempt a is about to prepare the file of a
\* range-capable task, and the file is shorter than the recorded downloaded
ShortFile(a) ==
    /\ res[a].pc = "rfile"
    /\ res[a].accept_range
    /\ disk[state[res[a].task].filepath] # NoFile
    /\ disk[state[res[a].task].filepath] < res[a].downloaded

\* C22: the resolver of a Resume on a range-capable task whose file is
\* shorter than the recorded downloaded ends in resume_file: it never
\* reaches the HTTP request, leaves the file and the TaskState as they are
\* and reports FileCorrupted (FailToResumeFile when the file could not be
\* opened to read its length). FileCorrupted is reported in that case only,
\* and the poll that observes it retires the task to the finished list.
C22_ShortFileIsCorrupted ==
    [][/\ \A a \in Attempts :
             /\ (ShortFile(a) /\ res'[a] # res[a] /\ res'[a].pc # "cancelled")
                   => /\ Terminated(res'[a].pc)
                      /\ disk' = disk
                      /\ state' = state
                      /\ res'[a].nsent = res[a].nsent + 1
                      /\ resChan[a] = "empty"
                            => resChan'[a] \in {"FileCorrupted",
                                                "FailToResumeFile"}
             /\ (resChan'[a] = "FileCorrupted" /\ resChan[a] = "empty")
                   => ShortFile(a)
             /\ (res[a].pc = "rfile" /\ res'[a].pc = "rconnect"
                    /\ res[a].accept_range)
                   => ~ShortFile(a)
       /\ \A t \in Tasks :
             Observes(t, "FileCorrupted")
                => /\ \A i \in 1..Len(list') : list'[i] # t
                   /\ \E i \in 1..Len(finished') :
                         /\ finished'[i].task = t
                         /\ finished'[i].state = "Failure"]_vars

C22_Witness ==
    \E t \in Tasks :
       /\ appRunning
       /\ Observed(t, "FileCorrupted")
       /\ InFinished(t)
       /\ ~InList(t)
       /\ state[t].accept_ranges
       /\ disk[state[t].filepath] < state[t].downloaded

\* C23: the resolver of a Resume on a TaskState without accept_ranges sets
\* downloaded to 0 in its first step, without touching the file, and
\* truncates the file in the next one; when it is about to issue the HTTP
\* request, downloaded is 0, the file is empty and nothing is buffered, and
\* the request asks for the whole resource.
C23_RestartResetsBeforeRequest ==
    [][\A a \in Attempts :
          LET t == res[a].task
              f == state[t].filepath
          IN
          /\ (res[a].pc = "start" /\ res'[a].pc = "rfile"
                 /\ ~state[t].accept_ranges)
                => /\ state'[t].downloaded = 0
                   /\ res'[a].downloaded = 0
                   /\ ~res'[a].accept_range
                   /\ disk' = disk
          /\ (res[a].pc = "rfile" /\ ~res[a].accept_range)
                => /\ state[t].downloaded = 0
                   /\ res'[a].pc = "rconnect" => disk'[f] = 0
          /\ (res[a].pc = "rconnect" /\ ~res[a].accept_range)
                => /\ state[t].downloaded = 0
                   /\ disk[f] = 0
                   /\ res[a].buf = 0
                   /\ res'[a].pc = "stream"
                         => res'[a].remaining = ResourceSize]_vars

C23_Witness ==
    \E a \in Attempts, b \in Attempts :
       /\ res[a].request = "Resume"
       /\ res[a].pc = "rconnect"
       /\ ~res[a].accept_range
       /\ state[res[a].task].downloaded = 0
       /\ disk[state[res[a].task].filepath] = 0
       /\ res[b].task = res[a].task
       /\ res[b].request = "Normal"
       /\ res[b].buf > 0

\* C24: the resolver of a Resume on a range-capable TaskState, once the
\* file is open and long enough, sets the file's length to the recorded
\* downloaded; the request it then issues starts at that same offset, so
\* the body carries the rest of the resource; the response's Content-Length
\* L is recorded as content_length = L + downloaded, and a response without
\* one leaves content_length as it was. Neither step changes downloaded or
\* accept_ranges.
C24_RangeResumeContinues ==
    [][\A a \in Attempts :
          LET t == res[a].task
              f == state[t].filepath
              d == state[t].downloaded
          IN
          /\ (res[a].pc = "rfile" /\ res[a].accept_range
                 /\ res'[a].pc = "rconnect")
                => /\ res[a].downloaded = d
                   /\ disk[f] >= d
                   /\ disk'[f] = d
                   /\ res'[a].buf = 0
                   /\ state' = state
          /\ (res[a].pc = "rconnect" /\ res[a].accept_range
                 /\ res'[a].pc = "stream")
                => /\ res[a].downloaded = d
                   /\ disk[f] = d
                   /\ res'[a].remaining = BodyLength(d)
                   /\ \/ state'[t].content_length = Some(BodyLength(d) + d)
                      \/ state'[t].content_length = state[t].content_length
                   /\ state'[t].downloaded = d
                   /\ state'[t].accept_ranges
                   /\ disk' = disk]_vars

C24_Witness ==
    \E a \in Attempts, b \in Attempts :
       /\ res[a].request = "Resume"
       /\ res[a].pc = "stream"
       /\ res[a].accept_range
       /\ res[a].downloaded = 1
       /\ res[a].remaining = ResourceSize - 1
       /\ state[res[a].task].downloaded = 1
       /\ state[res[a].task].content_length = Some(ResourceSize)
       /\ disk[state[res[a].task].filepath] = 1
       /\ res[b].task = res[a].task
       /\ res[b].request = "Normal"

\* the resolver of attempt a reports `stage` in this step
Reports(a, stage) ==
    resChan[a] = "empty" /\ resChan'[a] = stage

TasksOf(a) ==
    Cardinality({i \in 1..Len(queue) : queue[i].att = a})
       + (IF res[a].pc # "none" THEN 1 ELSE 0)

\* every submission made so far has exactly one Task, which is lost only
\* with the queue itself, and no Task or channel exists beyond them
OneTaskPerSubmission ==
    \A a \in Attempts :
       IF a <= natt
       THEN /\ TasksOf(a) <= 1
            /\ ~managerDone => TasksOf(a) = 1
       ELSE /\ TasksOf(a) = 0
            /\ resChan[a] = "unused"
            /\ cmdChan[a] = "unused"

\* a step that submits appends one Task bound to two channels that were not
\* in use, and the listener of its task, which is in the list, is the only
\* one to hold their other ends; nothing else lengthens the queue, and
\* while the queue is closed no step submits or adds a listener
SubmissionStep ==
    /\ (natt' # natt \/ Len(queue') > Len(queue))
          => /\ ~QueueClosed
             /\ natt' = natt + 1
             /\ Len(queue') = Len(queue) + 1
             /\ queue' = Append(queue, queue'[Len(queue')])
             /\ queue'[Len(queue')].att = natt'
             /\ resChan[natt'] = "unused" /\ resChan'[natt'] = "empty"
             /\ cmdChan[natt'] = "unused" /\ cmdChan'[natt'] = "empty"
             /\ LET t == queue'[Len(queue')].task IN
                /\ \E i \in 1..Len(list') : list'[i] = t
                /\ listener'[t].result_recv = natt'
                /\ listener'[t].command_sender = natt'
                /\ \A u \in Tasks \ {t} :
                      /\ listener'[u].result_recv # natt'
                      /\ listener'[u].command_sender # natt'
    /\ QueueClosed
          => /\ natt' = natt
             /\ ntask' = ntask
             /\ queue' = queue
             /\ Len(list') <= Len(list)

\* C26: a successful submission, Normal or Resume, puts exactly one Task on
\* the queue, bound to fresh result and command channels whose other ends
\* the listener of the task holds; a submission on a closed queue puts none
\* and yields no listener.
C26_OneTaskPerSubmission ==
    []OneTaskPerSubmission /\ [][SubmissionStep]_vars

C26_Witness ==
    /\ natt = 2
    /\ Len(queue) = 1
    /\ queue[1].request = "Resume"
    /\ queue[1].att = 2
    /\ listener[queue[1].task].result_recv = 2
    /\ listener[queue[1].task].command_sender = 2
    /\ resChan[2] = "empty"
    /\ cmdChan[2] = "empty"
    /\ res[1].pc = "done"
    /\ res[2].pc = "none"

\* a step that shortens the queue takes its first Task and starts one
\* resolver for it, on the task and request the Task carries, and touches
\* no other resolver
SpawnStep ==
    Len(queue') < Len(queue)
       => LET task == Head(queue) IN
          /\ queue' = Tail(queue)
          /\ res[task.att].pc = "none"
          /\ res'[task.att].pc = "start"
          /\ res'[task.att].task = task.task
          /\ res'[task.att].request = task.request
          /\ \A a \in Attempts \ {task.att} : res'[a] = res[a]

\* a resolver starts only for a Task taken from the queue
StartStep ==
    \A a \in Attempts :
       (res[a].pc = "none" /\ res'[a].pc # "none")
          => queue # <<>> /\ Head(queue).att = a /\ queue' = Tail(queue)

\* the loop has returned only after the queue was closed and drained, every
\* Task submitted having got its resolver
AllSpawnedAtExit ==
    managerDone
       => /\ ~appRunning
          /\ queue = <<>>
          /\ \A a \in Attempts : a <= natt <=> res[a].pc # "none"

\* C27: the TaskManager loop starts exactly one resolver for each Task it
\* receives, in queue order, the Tasks still queued when the App dropped
\* the only producer included; once the queue is closed and drained the
\* loop returns, so that run_app's join of the thread completes.
C27_EveryTaskSpawnedThenExit ==
    /\ [][SpawnStep /\ StartStep]_vars
    /\ []AllSpawnedAtExit
    /\ (~appRunning ~> managerDone)

C27_Witness ==
    /\ managerDone
    /\ ~appRunning
    /\ queue = <<>>
    /\ natt = 2
    /\ \A a \in Attempts : a <= natt => res[a].pc # "none"
    /\ \E a \in Attempts : res[a].pc = "cancelled" /\ res[a].request = "Resume"

\* the queue holds at most QueueCapacity Tasks, and they are the latest
\* submissions in the order they were made: none was dropped or overwritten
QueueWithinCapacity ==
    /\ Len(queue) <= QueueCapacity
    /\ Len(queue) <= natt
    /\ \A i \in 1..Len(queue) : queue[i].att = natt - Len(queue) + i

\* while the queue is full the only step is the manager's receive; a
\* submission appends its Task and a receive takes the oldest one
QueueStep ==
    /\ Len(queue) = QueueCapacity
          => natt' = natt /\ queue' = Tail(queue)
    /\ natt' # natt
          => /\ Len(queue) < QueueCapacity
             /\ natt' = natt + 1
             /\ Len(queue') = Len(queue) + 1
             /\ \A i \in 1..Len(queue) : queue'[i] = queue[i]
    /\ natt' = natt
          => queue # <<>> /\ queue' = Tail(queue)

\* C28: the submission queue never holds more than its capacity of 32
\* Tasks. A submission made while it is full does not return before the
\* manager has received a Task, and being full makes the queue neither drop
\* nor overwrite a Task.
C28_QueueBounded ==
    []QueueWithinCapacity /\ [][QueueStep]_vars

C28_Witness ==
    /\ Len(queue) = QueueCapacity
    /\ natt = QueueCapacity + 1
    /\ queue[1].att = 2
    /\ queue[QueueCapacity].att = QueueCapacity + 1

\* the locks context h holds
HeldBy(h) ==
    {t \in LockTasks : h \in Holders(t)}

\* the holder of a guard can always take its next step, which drops it
HolderCanRelease(t) ==
    /\ \A a \in LockTasks : a \in Holders(t) => ENABLED LockRelease(a)
    /\ FrontEndHolder \in Holders(t) => ENABLED FrontRelease(t)

\* C29: a TaskState lock has one holder at most; a resolver that is
\* suspended at an await, and the front end between two blocks, holds no
\* guard; no context holds the guards of two tasks; and whoever holds a
\* guard can always go on and drop it, so that a context calling lock()
\* never waits for a context that is itself waiting.
C29_LockDiscipline ==
    /\ \A t \in LockTasks :
          /\ Cardinality(Holders(t)) <= 1
          /\ Holders(t) # {} => HolderCanRelease(t)
    /\ \A a \in LockTasks :
          /\ res[a].pc \in {"await", "lock", "done"} => HeldBy(a) = {}
          /\ HeldBy(a) \subseteq {res[a].task}
    /\ Cardinality(HeldBy(FrontEndHolder)) <= 1
    /\ \A a \in LockTasks :
          res[a].pc = "lock"
             => \/ ENABLED LockAcquire(a)
                \/ \E t \in LockTasks :
                      Holders(t) # {} /\ HolderCanRelease(t)

C29_Witness ==
    /\ res[1].pc = "lock"
    /\ lastcall[1].called
    /\ res[2].pc = "section"
    /\ state[2].downloaded = 1
    /\ lastcall[1].cloned_state.downloaded = 0

\* C30: the name resolved for a download is the requested name when no
\* file has it, and otherwise the numbered name with the smallest number,
\* from 1, that no file has; no file had the resolved name when the
\* directory was looked at.
C30_SmallestFreeName ==
    [][\A t \in Tasks :
          state'[t].filepath # state[t].filepath
             => LET dest == state'[t].filepath IN
                /\ dest \in NamePaths
                /\ disk[dest] = NoFile
                /\ disk[0] = NoFile => dest = 0
                /\ disk[0] # NoFile
                      => /\ dest >= 1
                         /\ \A k \in 1..(dest - 1) : disk[k] # NoFile]_vars

C30_Witness ==
    \E t \in Tasks :
       /\ state[t].filepath = 2
       /\ disk[0] # NoFile
       /\ disk[1] # NoFile
       /\ disk[2] # NoFile
       /\ disk[3] = NoFile
       /\ disk[4] # NoFile

\* C31: the existence check and the creation of the file are separate
\* steps with nothing reserving the name in between: two running Normal
\* downloads that have both resolved their name, and whose files do not
\* exist yet, have recorded the same destination path, which both then
\* create and write to.
C31_SameNameRace ==
    \A a, b \in RaceTasks :
       (/\ a # b
        /\ res[a].pc = "create" /\ res[b].pc = "create"
        /\ disk[state[res[a].task].filepath] = NoFile
        /\ disk[state[res[b].task].filepath] = NoFile)
           => state[res[a].task].filepath = state[res[b].task].filepath

\* two downloads have recorded the same path, both passed the check before
\* the file existed, both have created it and both have written chunks for
\* it
C31_Witness ==
    \E a, b \in RaceTasks :
       /\ a # b
       /\ res[a].pc = "stream" /\ res[b].pc = "stream"
       /\ state[res[a].task].filepath = state[res[b].task].filepath
       /\ state[res[a].task].downloaded > 0
       /\ state[res[b].task].downloaded > 0
       /\ disk[state[res[a].task].filepath] # NoFile

\* the stages a resolver standing at the step of record r can deliver: the
\* stage of that step's failure, and what the step delivers otherwise
StepStages(r) ==
    CASE r.pc = "start" /\ r.request = "Normal" ->
             {"UnknownUrl", "FailToConnection"}
      [] r.pc = "connect" -> {"FailToConnection"}
      [] r.pc = "create" -> {"FailToCreateFile"}
      [] r.pc = "stream" /\ r.remaining > 0 ->
             {"FailToDownload", "FailToWrite", "UnknownError"}
      [] r.pc = "stream" /\ r.remaining = 0 -> {"FailToWrite", "Finished"}
      [] r.pc = "flush" -> {"FailToWrite", r.after}
      [] r.pc = "rfile" ->
             {"FailToResumeFile", "FileCorrupted", "FailToResumeConnection"}
      [] r.pc = "rconnect" -> {"FailToResumeConnection"}
      [] OTHER -> {}

\* the order of the steps of an attempt
StepRank(pc) ==
    CASE pc = "none" -> -1
      [] pc = "start" -> 0
      [] pc \in {"connect", "rfile"} -> 1
      [] pc \in {"create", "rconnect"} -> 2
      [] pc = "stream" -> 3
      [] pc = "flush" -> 4
      [] OTHER -> 5

\* C32: a failing step ends the attempt in that very step with the stage of
\* the step (URL parse UnknownUrl, client or request FailToConnection, file
\* creation FailToCreateFile, stream read FailToDownload, write or flush
\* FailToWrite, resume file FailToResumeFile, resume client or request
\* FailToResumeConnection); an attempt never goes back to an earlier step,
\* an ended attempt never runs again, and a new attempt on a download is
\* submitted only by a resume of its stopped listener.
C32_FailureEndsAttempt ==
    [][/\ \A a \in Attempts :
             /\ (resChan[a] = "empty" /\ resChan'[a] \in Stages)
                   => /\ resChan'[a] \in StepStages(res[a])
                      /\ res'[a].pc = "done"
                      /\ res'[a].nsent = res[a].nsent + 1
             /\ res[a].pc \in {"done", "panicked", "cancelled"}
                   => res'[a] = res[a]
             /\ StepRank(res'[a].pc) >= StepRank(res[a].pc)
             /\ res'[a].nsent <= 1
       /\ natt' # natt
             => /\ natt' = natt + 1
                /\ ntask' = ntask
                      => \E index \in 1..Len(list) :
                            /\ listener[list[index]].stopped
                            /\ queue' = Append(queue,
                                   [task |-> list[index], request |-> "Resume",
                                    url |-> None, att |-> natt'])]_vars

\* a resumed attempt has ended on the failure of its file step, after the
\* first attempt of the download had ended on a failed chunk
C32_Witness ==
    \E a \in Attempts :
       /\ res[a].request = "Resume"
       /\ res[a].pc = "done"
       /\ resChan[a] = "FailToResumeFile"
       /\ \E b \in Attempts :
             b < a /\ res[b].task = res[a].task /\ res[b].pc = "done"

\* the resolver of attempt a makes a send on its result channel in this
\* step, the receiver being already dropped
SendsToDroppedReceiver(a) ==
    /\ resChan[a] = "rxdropped"
    /\ res'[a].nsent = res[a].nsent + 1

\* the step is the one that finds the command channel closed after a chunk
ClosedCommandPath(a) ==
    /\ res[a].pc = "stream"
    /\ res[a].remaining > 0
    /\ OneshotTryRecv(cmdChan[a]).res = "Closed"
    /\ state'[res[a].task].downloaded = state[res[a].task].downloaded + 1

\* C33 as stated: no resolver ends abnormally after a send on a broken
\* result channel.
C33_NeverAbnormalOnBrokenChannel ==
    \A a \in Attempts : res[a].pc = "panicked" => res[a].nsent = 0

\* C33: a send to a dropped result receiver reports nothing and ends the
\* resolver in that step; the resolver returns quietly only on the path
\* that found the command channel closed (UnknownError), and panics on the
\* unwrap of the failed send on every other path.
C33_BrokenChannelPanicsExceptUnknownError ==
    [][\A a \in Attempts :
          SendsToDroppedReceiver(a)
             => /\ resChan'[a] = "rxdropped"
                /\ res'[a].pc \in {"done", "panicked"}
                /\ res'[a].pc = "done" <=> ClosedCommandPath(a)]_vars

\* one resolver has panicked on a send to the dropped receiver
C33_Witness ==
    \E a \in Attempts :
       /\ res[a].pc = "panicked"
       /\ res[a].nsent = 1
       /\ resChan[a] = "rxdropped"

\* the poll of this step retires task t with a finished entry of `outcome`
RetiresAs(t, outcome) ==
    /\ \A i \in 1..Len(list') : list'[i] # t
    /\ Len(finished') = Len(finished) + 1
    /\ finished'[Len(finished')].task = t
    /\ finished'[Len(finished')].state = outcome
    /\ \A i \in 1..Len(finished) : finished'[i] = finished[i]

\* C34: the poll that observes FailToConnection or FailToCreateFile retires
\* the task to the finished list as a Failure, the one that observes
\* Finished retires it as a Success, and the one that observes Interrupted
\* leaves it in the active list, stopped; resume_task on that listener then
\* submits a new attempt for it.
C34_RetirementPolicy ==
    [][\A t \in Tasks :
          /\ (Observes(t, "FailToConnection") \/ Observes(t, "FailToCreateFile"))
                => RetiresAs(t, "Failure")
          /\ Observes(t, "Finished") => RetiresAs(t, "Success")
          /\ Observes(t, "Interrupted")
                => /\ \E i \in 1..Len(list') : list'[i] = t
                   /\ listener'[t].stopped
                   /\ Len(finished') = Len(finished)
          /\ \A index \in 1..MaxTasks :
                (/\ index <= Len(list)
                 /\ list[index] = t
                 /\ listener[t].task_result = "Interrupted"
                 /\ ~QueueClosed
                 /\ ResumeTask(index))
                   => /\ natt' = natt + 1
                      /\ queue' = Append(queue,
                             [task |-> t, request |-> "Resume", url |-> None,
                              att |-> natt'])
                      /\ listener'[t] = NewListener(natt')
                      /\ list' = list]_vars

\* the task stayed in the active list after its first attempt, was
\* restarted, and the Finished of the resumed attempt has retired it as a
\* Success
C34_Witness ==
    \E t \in Tasks, a \in Attempts :
       /\ appRunning
       /\ ~InList(t)
       /\ res[a].task = t
       /\ res[a].request = "Resume"
       /\ listener[t].result_recv = a
       /\ listener[t].task_result = "Finished"
       /\ \E i \in 1..Len(finished) :
             finished[i].task = t /\ finished[i].state = "Success"

\* the results that leave the task in the active list, where it can be
\* resumed
ResumableStages ==
    {"Interrupted", "FailToDownload", "FailToWrite", "FailToResumeFile",
     "FailToResumeConnection"}

\* C35: when a result that leaves the task resumable is delivered, every
\* byte counted in downloaded has been flushed to the file (the BufWriter of
\* the attempt holds nothing), and no range resume reports FileCorrupted
\* for a file that only the download's own attempts have written.
C35_ResumableResultsFlushed ==
    /\ \A a \in Attempts :
          resChan[a] \in ResumableStages => res[a].buf = 0
    /\ \A a \in Attempts : resChan[a] # "FileCorrupted"

\* the TaskState of task t has the URL and the destination path that
\* get_download_head records
HeaderRecorded(t) ==
    state[t].url # None /\ state[t].filepath # NoPath

\* C36: every Resume attempt, queued or about to read the TaskState, finds
\* the URL and the destination path recorded, because a stopped listener of
\* the active list belongs to a task whose first attempt got past the
\* header; no Resume attempt panics before its first send.
C36_ResumeFindsUrl ==
    /\ \A t \in Tasks :
          (InList(t) /\ listener[t].stopped) => HeaderRecorded(t)
    /\ \A i \in 1..Len(queue) :
          queue[i].request = "Resume" => HeaderRecorded(queue[i].task)
    /\ \A a \in Attempts :
          res[a].request = "Resume"
             => /\ res[a].pc = "start" => HeaderRecorded(res[a].task)
                /\ res[a].pc = "panicked" => res[a].nsent = 1

\* a Resume attempt has read the TaskState and holds the URL it found
C36_Witness ==
    \E a \in Attempts :
       /\ res[a].request = "Resume"
       /\ res[a].pc = "rfile"
       /\ res[a].url = "http://h/a"
       /\ state[res[a].task].filepath # NoPath

\* C37: last_downloaded never exceeds downloaded, whatever the order of the
\* resolver's increments, the ui_update calls of the render and the resets
\* of a resume, so the subtraction of ui_update does not underflow.
C37_LastDownloadedBounded ==
    \A t \in Tasks :
       /\ state[t].last_downloaded <= state[t].downloaded
       /\ state[t].downloaded - state[t].last_downloaded >= 0

\* a resumed attempt has reset last_downloaded, counted its chunks, and a
\* render has then brought last_downloaded up to downloaded
C37_Witness ==
    \E a \in Attempts :
       /\ res[a].request = "Resume"
       /\ res[a].pc = "stream"
       /\ res[a].remaining = 0
       /\ state[res[a].task].downloaded > res[a].downloaded
       /\ state[res[a].task].last_downloaded = state[res[a].task].downloaded

\* the listeners of task t in the active list, and its finished entries
ListedAt(t) == {i \in 1..Len(list) : list[i] = t}

FinishedAt(t) == {i \in 1..Len(finished) : finished[i].task = t}

\* C38: whatever submissions, stops, aborts, resumes and polls were made,
\* every submitted download is held exactly once, by a listener of the
\* active list or by an entry of the finished list: never by both, never
\* twice, never by none; a download that was not submitted is in neither.
C38_TaskConservation ==
    /\ \A t \in ListTasks :
          Cardinality(ListedAt(t)) + Cardinality(FinishedAt(t)) =
             IF t <= ntask THEN 1 ELSE 0
    /\ Len(list) + Len(finished) = ntask

\* of two downloads, the second was aborted after a result that had kept
\* it in the active list, while the first, resumed, is still there
C38_Witness ==
    /\ ntask = 2
    /\ list = <<1>>
    /\ listener[1].result_recv = 3
    /\ FinishedAt(2) # {}
    /\ listener[2].task_result # None
    /\ ~RemoveHint(listener[2].task_result)

C40_ResumedListenerCommands ==
    [][/\ \A index \in 1..MaxTasks :
             (/\ index <= Len(list)
              /\ ResumeAllowed(listener[list[index]])
              /\ ~QueueClosed
              /\ ResumeTask(index))
                => /\ listener'[list[index]].command_sender = natt'
                   /\ listener'[list[index]].result_recv = natt'
                   /\ cmdChan'[natt'] = "empty"
                   /\ \A b \in Attempts :
                         cmdChan'[b] \in TaskCommands => cmdChan[b] = cmdChan'[b]
       /\ \A index \in 1..MaxTasks :
             (/\ index <= Len(list)
              /\ ~listener[list[index]].stopped
              /\ listener[list[index]].command_sender # NoAttempt
              /\ (StopTask(index) \/ AbortTask(index)))
                => LET l == listener[list[index]]
                       a == l.command_sender
                   IN  /\ a = l.result_recv
                       /\ listener'[list[index]].command_sender = NoAttempt
                       /\ cmdChan[a] = "empty" => cmdChan'[a] \in TaskCommands
                       /\ \A b \in Attempts \ {a} : cmdChan'[b] = cmdChan[b]
       /\ \A a \in Attempts :
             (cmdChan[a] \in TaskCommands /\ cmdChan'[a] = "taken")
                => /\ res[a].pc = "stream"
                   /\ res'[a].pc = "flush"
                   /\ res'[a].after =
                         IF cmdChan[a] = "Stop" THEN "Interrupted" ELSE "Abort"
                   /\ \A b \in Attempts \ {a} : res'[b] = res[b]]_vars

\* the first attempt ended flushed with bytes downloaded (its Stop was
\* reported as Interrupted), the task was resumed with ranges, and the
\* resolver of the second attempt has received the second Stop
C40_Witness ==
    \E a, b \in Attempts :
       /\ a < b
       /\ res[a].task = res[b].task
       /\ res[a].pc = "done"
       /\ res[a].buf = 0
       /\ res[b].request = "Resume"
       /\ res[b].accept_range
       /\ res[b].downloaded > 0
       /\ res[b].pc = "flush"
       /\ res[b].after = "Interrupted"
       /\ listener[res[b].task].command_sender = NoAttempt
       /\ listener[res[b].task].result_recv = b

====
